---- MODULE Spec2Model ----
(***************************************************************************)
(* A model of NuX: the data-parallel training script (glow_injective.py)   *)
(* and the mixture-CDF bijections with their bisection root-find           *)
(* (nux/flows/bijective/mixture.py).                                       *)
(*                                                                         *)
(* Three specifications share the variables:                               *)
(*   Spec        the training script: pmap'ed update steps, checkpoints    *)
(*               and resumes;                                              *)
(*   SpecMix     mixture_forward followed by mixture_inverse, the inverse  *)
(*               running the bisection loop iteration by iteration;        *)
(*   SpecBis     bisection() on its own, over a family of functions f.     *)
(* Each Init fixes the variables of the other parts to an idle value.      *)
(*                                                                         *)
(* Numbers.  Pytree leaves, gradients and losses are integers modulo       *)
(* ValMod (the networks are external to the modelled files, so their       *)
(* outputs are concrete but arbitrary functions of their arguments).       *)
(* Reals of the mixture code are fixed-point integers, see the mixture     *)
(* section.                                                                *)
(***************************************************************************)
EXTENDS Integers, Sequences, FiniteSets, TLC

VARIABLES
  \* ---- training script (glow_injective.py) ----
  pc,                    \* "construct" | "setup" | "loop" | "step" | "failed" | "finished" | "idle"
  n_gpus,                \* xla_bridge.device_count()
  print_every,           \* args.printevery
  model_type,            \* structure of the model built by this process
  start_it,              \* args.startingit of this process
  i,                     \* loop variable of the training loop
  key,                   \* the RNG key
  train_keys,            \* per-device keys of the current step
  x_batch,               \* per-device data shard of the current step
  variant,               \* the flow whose spmd_update is running
  phase,                 \* per device: position inside spmd_update
  grads,                 \* per device: local gradient (a leaf sequence)
  g,                     \* per device: result of psum
  replicated_opt_state,  \* [variant -> [device -> pytree]]
  replicated_state,      \* [variant -> [device -> pytree]]
  replicated_val,        \* [variant -> [device -> loss]]
  losses,                \* [variant -> sequence of logged losses]
  disk,                  \* Experiments/<name>/ : checkpoints, misc.p, losses files
  hist,                  \* history: per checkpointed iteration, what was in memory
  restarts,              \* number of times the script was started again
  models,                \* [variant -> the Model built by the construction loop]
  init_runs,             \* [variant -> data-dependent init passes of this process]
  \* ---- mixture transform and bisection (mixture.py) ----
  mpc,                   \* "idle" | "fwd" | "inv" | "solve" | "done"
  mx,                    \* the call's inputs
  mres,                  \* the call's results
  val                    \* the while_loop carry of bisection

trainVars == <<pc, n_gpus, print_every, model_type, start_it, i, key, train_keys,
               x_batch, variant, phase, grads, g, replicated_opt_state,
               replicated_state, replicated_val, losses, disk, hist, restarts,
               models, init_runs>>
mixVars == <<mpc, mx, mres, val>>
vars == <<trainVars, mixVars>>

(***************************************************************************)
(* Bounds of the model.                                                    *)
(***************************************************************************)
MaxDevices == 2      \* n_gpus ranges over 1..MaxDevices
MaxIter == 3         \* the training loop runs i = start_it .. MaxIter-1
MaxRestarts == 1     \* how often the script is started again
ValMod == 3          \* leaves, gradients, losses and data are integers mod ValMod
MaxIters == 18       \* stands for bisection's default max_iters (10000)
MaxK == 2            \* the declared component counts are 1..MaxK

\* The batches a step can draw, as the per-device shards: the same data on
\* every device, or shards that differ from one device to the next.
Batches(n) == {[d \in 1..n |-> 0], [d \in 1..n |-> d % 2]}
PrintEvery == {1, 2}
Variants == {"nf", "nif"}
Devices == 1..n_gpus
None == "none"

RECURSIVE SumSeq(_)
SumSeq(s) == IF s = <<>> THEN 0 ELSE Head(s) + SumSeq(Tail(s))

(***************************************************************************)
(* Pytrees: a tree is its structure (treedef) and its flat list of leaves. *)
(* A treedef is the sequence of the leaf counts of the root's children.    *)
(***************************************************************************)
NumLeaves(treedef) == SumSeq(treedef)
tree_leaves(t) == t.leaves
tree_structure(t) == t.def
tree_unflatten(treedef, leaves) == [def |-> treedef, leaves |-> leaves]
\* tree_unflatten raises ValueError unless it is given one leaf per leaf of treedef
tree_unflatten_raises(treedef, leaves) == Len(leaves) # NumLeaves(treedef)
Zeros(treedef) == [def |-> treedef, leaves |-> [k \in 1..NumLeaves(treedef) |-> 0]]

\* The model structures a process can construct.  "A" and "B" differ in
\* topology with the same number of leaves, "C" differs in the number too.
ModelTypes == {"A", "B", "C"}
ParamDef(mt) == CASE mt = "A" -> <<1, 1>> [] mt = "B" -> <<2>> [] OTHER -> <<1, 2>>
StateDef(mt) == <<1>>

VIdx(v) == IF v = "nf" THEN 0 ELSE 1

\* random.PRNGKey(0) and the j-th key of random.split(k, num)
PRNGKey0 == 0
random_split(k, num, j) == k * num + j + 1

(***************************************************************************)
(* The external collaborators of spmd_update: the flow's forward pass      *)
(* (loss, gradient, updated FlowState) and the optimizer.  They are        *)
(* deterministic functions of their arguments; the two flows differ.       *)
(***************************************************************************)
get_params(opt_state) == tree_leaves(opt_state)

\* value_and_grad(nll, has_aux=True)(params, state, x_batch, key=key): the loss
Loss(v, params, state, x, k) ==
  (SumSeq(params) + SumSeq(tree_leaves(state)) + x + VIdx(v)) % ValMod

\* ... its gradient, one entry per parameter leaf
Grad(v, params, state, x, k) ==
  [j \in DOMAIN params |->
     (params[j] + SumSeq(tree_leaves(state)) + x + k + j + VIdx(v)) % ValMod]

\* ... and the FlowState the forward pass returns (it depends on the shard)
UpdatedState(v, state, x) ==
  [def |-> state.def,
   leaves |-> [j \in DOMAIN state.leaves |-> (state.leaves[j] + x + VIdx(v)) % ValMod]]

\* optimizers.adam's opt_update(i, g, opt_state)
opt_update(it, gr, opt_state) ==
  [def |-> opt_state.def,
   leaves |-> [j \in DOMAIN opt_state.leaves |->
                 (opt_state.leaves[j] + ValMod - gr[j]) % ValMod]]

\* jax.lax.psum(grads, 'batch'): the sum over all devices of the axis, leaf by leaf
RECURSIVE SumOver(_, _, _)
SumOver(gs, ds, j) ==
  IF ds = {} THEN 0
  ELSE LET d == CHOOSE e \in ds : TRUE
       IN (IF j \in DOMAIN gs[d] THEN gs[d][j] ELSE 0) + SumOver(gs, ds \ {d}, j)

psumLocal(gs, d) == gs[d]
psum(gs, d) ==
  LET some == CHOOSE e \in DOMAIN gs : gs[e] # <<>>
  IN [j \in DOMAIN gs[some] |-> SumOver(gs, DOMAIN gs, j) % ValMod]

\* the collective completes once every device of the axis has contributed
psum_ready_any(ph) == \E d \in DOMAIN ph : ph[d] = "grad"
psum_ready(ph) == \A d \in DOMAIN ph : ph[d] = "grad"

\* replicate_array: broadcast one value to n_gpus copies
replicate_array(x, n) == [d \in 1..n |-> x]

(***************************************************************************)
(* The state after construction: models built, optimizer initialised,      *)
(* both replicated, an empty Experiments directory.                        *)
(***************************************************************************)
NoKey == -1
EmptyDisk == [ckpt |-> <<>>, misc |-> [key |-> NoKey], losses_nf |-> <<>>,
              losses_nif |-> <<>>]

MixIdle ==
  /\ mpc = "idle"
  /\ mx = [kind |-> None]
  /\ mres = [kind |-> None]
  /\ val = [kind |-> None]

Fresh(mt, n) ==
  /\ model_type = mt
  /\ n_gpus = n
  /\ replicated_opt_state = [v \in Variants |-> replicate_array(Zeros(ParamDef(mt)), n)]
  /\ replicated_state = [v \in Variants |-> replicate_array(Zeros(StateDef(mt)), n)]
  /\ replicated_val = [v \in Variants |-> replicate_array(0, n)]
  /\ x_batch = replicate_array(0, n)
  /\ train_keys = replicate_array(0, n)
  /\ phase = replicate_array("updated", n)
  /\ grads = replicate_array(<<>>, n)
  /\ g = replicate_array(<<>>, n)
  /\ models = [v \in Variants |-> None]
  /\ init_runs = [v \in Variants |-> 0]

Init ==
  /\ \E mt \in ModelTypes, n \in 1..MaxDevices : Fresh(mt, n)
  /\ print_every \in PrintEvery
  /\ start_it = 0
  /\ i = 0
  /\ key = PRNGKey0
  /\ variant = "nf"
  /\ losses = [v \in Variants |-> <<>>]
  /\ disk = EmptyDisk
  /\ hist = <<>>
  /\ restarts = 0
  /\ pc = "construct"
  /\ MixIdle

(***************************************************************************)
(* The construction loop (lines 70-91) and the set-up of the optimizer,    *)
(* the resume block and the replication (lines 112-153).                   *)
(***************************************************************************)
\* line 78: the data-dependent initialization is run for a start from scratch
runs_init_always(start_it_) == TRUE
runs_init(start_it_) == start_it_ = 0

\* the parameters after the bootstrap batch has been passed through the flow
multistep_flow_data_dependent_init(v, params) ==
  [params EXCEPT !.leaves = [k \in DOMAIN @ |-> (1 + VIdx(v)) % ValMod]]

\* optimizers.adam: the optimizer state holds the parameters
opt_init(params) == params

\* lines 71-90: one trip of the loop over [nf, nif]
ConstructFlow ==
  /\ pc = "construct"
  /\ LET params0 == Zeros(ParamDef(model_type))
         params == IF runs_init(start_it)
                   THEN multistep_flow_data_dependent_init(variant, params0)
                   ELSE params0
     IN models' = [models EXCEPT ![variant] =
                     [params |-> params, state |-> Zeros(StateDef(model_type))]]
  /\ init_runs' = IF runs_init(start_it)
                  THEN [init_runs EXCEPT ![variant] = @ + 1]
                  ELSE init_runs
  /\ IF variant = "nf"
     THEN variant' = "nif" /\ pc' = "construct"
     ELSE variant' = "nif" /\ pc' = "setup"
  /\ UNCHANGED <<n_gpus, print_every, model_type, start_it, i, key, train_keys,
                 x_batch, phase, grads, g, replicated_opt_state, replicated_state,
                 replicated_val, losses, disk, hist, restarts>>
  /\ UNCHANGED mixVars

(***************************************************************************)
(* One iteration of the training loop.                                     *)
(***************************************************************************)
\* lines 165-171: split the key, draw the batch and the per-device keys
BeginStep ==
  /\ pc = "loop"
  /\ i < MaxIter
  /\ key' = random_split(key, 3, 0)
  /\ \E xb \in Batches(n_gpus) : x_batch' = xb
  /\ train_keys' = [d \in Devices |-> random_split(random_split(key, 3, 2), n_gpus, d - 1)]
  /\ variant' = "nf"
  /\ phase' = [d \in Devices |-> "idle"]
  /\ grads' = [d \in Devices |-> <<>>]
  /\ g' = [d \in Devices |-> <<>>]
  /\ pc' = "step"
  /\ UNCHANGED <<n_gpus, print_every, model_type, start_it, i, replicated_opt_state,
                 replicated_state, replicated_val, losses, disk, hist, restarts,
                 models, init_runs>>
  /\ UNCHANGED mixVars

\* spmd_update lines 100-101 on device d
DeviceGrad(d) ==
  /\ pc = "step"
  /\ phase[d] = "idle"
  /\ LET params == get_params(replicated_opt_state[variant][d])
         st == replicated_state[variant][d]
     IN /\ grads' = [grads EXCEPT ![d] =
                       Grad(variant, params, st, x_batch[d], train_keys[d])]
        /\ replicated_val' = [replicated_val EXCEPT ![variant][d] =
                       Loss(variant, params, st, x_batch[d], train_keys[d])]
  /\ phase' = [phase EXCEPT ![d] = "grad"]
  /\ UNCHANGED <<pc, n_gpus, print_every, model_type, start_it, i, key, train_keys,
                 x_batch, variant, g, replicated_opt_state, replicated_state,
                 losses, disk, hist, restarts,
                 models, init_runs>>
  /\ UNCHANGED mixVars

\* spmd_update line 102: the all-reduce
AllReduce ==
  /\ pc = "step"
  /\ psum_ready(phase)
  /\ g' = [d \in Devices |-> psum(grads, d)]
  /\ phase' = [d \in Devices |-> "reduced"]
  /\ UNCHANGED <<pc, n_gpus, print_every, model_type, start_it, i, key, train_keys,
                 x_batch, variant, grads, replicated_opt_state, replicated_state,
                 replicated_val, losses, disk, hist, restarts,
                 models, init_runs>>
  /\ UNCHANGED mixVars

\* spmd_update lines 103-104 on device d: the update and the returned state
DeviceUpdate(d) ==
  /\ pc = "step"
  /\ phase[d] = "reduced"
  /\ replicated_opt_state' = [replicated_opt_state EXCEPT ![variant][d] =
        opt_update(i, g[d], replicated_opt_state[variant][d])]
  /\ replicated_state' = [replicated_state EXCEPT ![variant][d] =
        UpdatedState(variant, replicated_state[variant][d], x_batch[d])]
  /\ phase' = [phase EXCEPT ![d] = "updated"]
  /\ UNCHANGED <<pc, n_gpus, print_every, model_type, start_it, i, key, train_keys,
                 x_batch, variant, grads, g, replicated_val, losses, disk, hist,
                 restarts,
                 models, init_runs>>
  /\ UNCHANGED mixVars

\* line 174: the second flow's update starts when the first has returned
NextVariant ==
  /\ pc = "step"
  /\ variant = "nf"
  /\ \A d \in Devices : phase[d] = "updated"
  /\ variant' = "nif"
  /\ phase' = [d \in Devices |-> "idle"]
  /\ grads' = [d \in Devices |-> <<>>]
  /\ g' = [d \in Devices |-> <<>>]
  /\ UNCHANGED <<pc, n_gpus, print_every, model_type, start_it, i, key, train_keys,
                 x_batch, replicated_opt_state, replicated_state, replicated_val,
                 losses, disk, hist, restarts,
                 models, init_runs>>
  /\ UNCHANGED mixVars

\* lines 188-205: what the checkpoint block writes
Checkpoint_without_key(d0, ls) ==
  [ckpt |-> (i :> [opt_state_nf_leaves |-> tree_leaves(replicated_opt_state["nf"][1]),
                   opt_state_nif_leaves |-> tree_leaves(replicated_opt_state["nif"][1]),
                   state_nf_leaves |-> tree_leaves(replicated_state["nf"][1]),
                   state_nif_leaves |-> tree_leaves(replicated_state["nif"][1])])
            @@ d0.ckpt,
   misc |-> d0.misc,
   losses_nf |-> ls["nf"],
   losses_nif |-> ls["nif"]]
Checkpoint(d0, ls) ==
  [ckpt |-> (i :> [opt_state_nf_leaves |-> tree_leaves(replicated_opt_state["nf"][1]),
                   opt_state_nif_leaves |-> tree_leaves(replicated_opt_state["nif"][1]),
                   state_nf_leaves |-> tree_leaves(replicated_state["nf"][1]),
                   state_nif_leaves |-> tree_leaves(replicated_state["nif"][1])])
            @@ d0.ckpt,
   misc |-> [key |-> key],
   losses_nf |-> ls["nf"],
   losses_nif |-> ls["nif"]]

\* lines 177-205: log the losses of replica 0, checkpoint every print_every
FinishIteration ==
  /\ pc = "step"
  /\ variant = "nif"
  /\ \A d \in Devices : phase[d] = "updated"
  /\ LET ls == [v \in Variants |-> Append(losses[v], replicated_val[v][1])]
     IN /\ losses' = ls
        /\ IF i % print_every = 0
           THEN /\ disk' = Checkpoint(disk, ls)
                /\ hist' = (i :> [key |-> key, model_type |-> model_type])
                           @@ hist
           ELSE UNCHANGED <<disk, hist>>
  /\ i' = i + 1
  /\ pc' = "loop"
  /\ UNCHANGED <<n_gpus, print_every, model_type, start_it, key, train_keys, x_batch,
                 variant, phase, grads, g, replicated_opt_state, replicated_state,
                 replicated_val, restarts,
                 models, init_runs>>
  /\ UNCHANGED mixVars

\* the for loop is exhausted
LoopEnd ==
  /\ pc = "loop"
  /\ i >= MaxIter
  /\ pc' = "finished"
  /\ UNCHANGED <<n_gpus, print_every, model_type, start_it, i, key, train_keys,
                 x_batch, variant, phase, grads, g, replicated_opt_state,
                 replicated_state, replicated_val, losses, disk, hist, restarts,
                 models, init_runs>>
  /\ UNCHANGED mixVars

(***************************************************************************)
(* Starting the script again with --startingit s (lines 70-153).  The      *)
(* Experiments directory is what the earlier processes left.  A process    *)
(* killed inside an iteration has written nothing since the iteration      *)
(* before, so restarts are taken between iterations.                       *)
(***************************************************************************)
load_pytree_raises(treedef, file) == tree_unflatten_raises(treedef, file)
load_pytree(treedef, file) == tree_unflatten(treedef, file)

\* lines 124-127: which file each of the four trees is read from
ResumeFile(which) ==
  CASE which = "opt_state_nf" -> "opt_state_nf_leaves"
    [] which = "opt_state_nif" -> "opt_state_nif_leaves"
    [] which = "state_nf" -> "state_nf_leaves"
    [] which = "state_nif" -> "state_nf_leaves"

Resume(mt, s) ==
  /\ pc \in {"loop", "finished", "failed"}
  /\ restarts < MaxRestarts
  /\ s # 0
  /\ s \in DOMAIN disk.ckpt
  /\ restarts' = restarts + 1
  /\ model_type' = mt
  /\ start_it' = s
  /\ i' = s
  /\ key' = PRNGKey0
  /\ losses' = [v \in Variants |-> <<>>]
  /\ variant' = "nf"
  /\ x_batch' = replicate_array(0, n_gpus)
  /\ train_keys' = replicate_array(0, n_gpus)
  /\ phase' = replicate_array("updated", n_gpus)
  /\ grads' = replicate_array(<<>>, n_gpus)
  /\ g' = replicate_array(<<>>, n_gpus)
  /\ replicated_val' = [v \in Variants |-> replicate_array(0, n_gpus)]
  /\ replicated_opt_state' =
       [v \in Variants |-> replicate_array(Zeros(ParamDef(mt)), n_gpus)]
  /\ replicated_state' =
       [v \in Variants |-> replicate_array(Zeros(StateDef(mt)), n_gpus)]
  /\ models' = [v \in Variants |-> None]
  /\ init_runs' = [v \in Variants |-> 0]
  /\ pc' = "construct"
  /\ UNCHANGED <<n_gpus, print_every, disk, hist>>
  /\ UNCHANGED mixVars

\* lines 112-153: create the optimizer, load the checkpoint of start_it when
\* resuming, start the loss lists, replicate
SetupTraining ==
  /\ pc = "setup"
  /\ losses' = [v \in Variants |-> <<>>]
  /\ IF start_it = 0
     THEN /\ pc' = "loop"
          /\ replicated_opt_state' =
               [v \in Variants |-> replicate_array(opt_init(models[v].params), n_gpus)]
          /\ replicated_state' =
               [v \in Variants |-> replicate_array(models[v].state, n_gpus)]
          /\ UNCHANGED <<i, key>>
     ELSE LET mt == model_type
              dir == disk.ckpt[start_it]
              raises ==
                \/ load_pytree_raises(ParamDef(mt), dir[ResumeFile("opt_state_nf")])
                \/ load_pytree_raises(ParamDef(mt), dir[ResumeFile("opt_state_nif")])
                \/ load_pytree_raises(StateDef(mt), dir[ResumeFile("state_nf")])
                \/ load_pytree_raises(StateDef(mt), dir[ResumeFile("state_nif")])
          IN IF raises
             THEN /\ pc' = "failed"
                  /\ UNCHANGED <<i, key, replicated_opt_state, replicated_state>>
             ELSE /\ pc' = "loop"
                  /\ i' = start_it + 1
                  /\ key' = disk.misc.key
                  /\ replicated_opt_state' =
                       [v \in Variants |-> replicate_array(
                          load_pytree(ParamDef(mt), dir[ResumeFile("opt_state_" \o v)]),
                          n_gpus)]
                  /\ replicated_state' =
                       [v \in Variants |-> replicate_array(
                          load_pytree(StateDef(mt), dir[ResumeFile("state_" \o v)]),
                          n_gpus)]
  /\ UNCHANGED <<n_gpus, print_every, model_type, start_it, train_keys, x_batch,
                 variant, phase, grads, g, replicated_val, disk, hist, restarts,
                 models, init_runs>>
  /\ UNCHANGED mixVars

Next ==
  \/ ConstructFlow
  \/ SetupTraining
  \/ BeginStep
  \/ \E d \in Devices : DeviceGrad(d)
  \/ AllReduce
  \/ \E d \in Devices : DeviceUpdate(d)
  \/ NextVariant
  \/ FinishIteration
  \/ LoopEnd
  \/ \E mt \in ModelTypes, s \in 1..MaxIter : Resume(mt, s)

Spec == Init /\ [][Next]_vars

(***************************************************************************)
(* Mixture transform and bisection (mixture.py).                           *)
(*                                                                         *)
(* Fixed point.  Points (x, z, means, lower, upper, current_z) are         *)
(* integers counting 1/ZScale; ZScale has one binary digit per bisection   *)
(* iteration, so every midpoint the loop takes is exact.  CDF values       *)
(* (current_x, the target, dx, atol) count 1/(One*ZScale), One being the   *)
(* table value of 1.0.  Log-densities count LogOne per ln 2.               *)
(* exp, tanh, ndtr, log_sigmoid and logsumexp are tables at the lattice    *)
(* points with linear interpolation, rounded to these units.  The entries  *)
(* of theta are integers: a weight logit w stands for w*ln 2, a mean for   *)
(* itself, a log-scale L for L*2*ln 2, the affine log_s r for the raw      *)
(* value r/2 and the shift t for itself.                                   *)
(***************************************************************************)
ZScale == 2 ^ (MaxIters + 1)
Abs(a) == IF a < 0 THEN -a ELSE a
Max2(a, b) == IF a >= b THEN a ELSE b
Min2(a, b) == IF a <= b THEN a ELSE b
\* v * 2^e, rounded down
Scale2(v, e) == IF e >= 0 THEN v * (2 ^ e) ELSE v \div (2 ^ (-e))

\* 100 * sigmoid(n) and 100 * ndtr(n) for n = 0, 1, 2, ...; the last entry is 1.0
LogisticCdfTab == <<50, 73, 88, 95, 98, 99, 100>>
NormalCdfTab == <<50, 84, 98, 100>>
One == LogisticCdfTab[Len(LogisticCdfTab)]
FUnit == One * ZScale
\* log(1 + 2^(-d)) for d = 0, 1, 2, ...
SoftplusTab == <<16, 9, 5, 3, 1, 1, 0>>
\* log-densities: LogOne units per ln 2
LogOne == SoftplusTab[1]
\* log_sigmoid(n) + log_sigmoid(-n) and -n^2/2 - log(2 pi)/2 for n = 0, 1, ...,
\* continued linearly with the slope of the last step
LogisticLogPdfTab == <<-32, -38, -52, -71, -93, -116, -139, -162, -185>>
LogisticLogPdfSlope ==
  LogisticLogPdfTab[Len(LogisticLogPdfTab) - 1] - LogisticLogPdfTab[Len(LogisticLogPdfTab)]
NormalLogPdfTab == <<-21, -33, -67, -125, -206, -310>>
NormalLogPdfSlope ==
  NormalLogPdfTab[Len(NormalLogPdfTab) - 1] - NormalLogPdfTab[Len(NormalLogPdfTab)]
\* beyond this many units from a mean the tables are evaluated at the clamp
ClampAt == 64       \* a bound of the model, not of the source

CdfKnot(tab, n) ==
  LET at(m) == IF m >= Len(tab) - 1 THEN tab[Len(tab)] ELSE tab[m + 1]
  IN IF n >= 0 THEN at(n) ELSE One - at(-n)

\* the CDF at the point u, in 1/(One*ZScale)
CdfInterp(tab, u) ==
  LET k == u \div ZScale
      r == u % ZScale
  IN CdfKnot(tab, k) * (ZScale - r) + CdfKnot(tab, k + 1) * r

LogPdfKnot(tab, slope, n) ==
  LET m == Abs(n)
  IN IF m >= Len(tab) - 1 THEN tab[Len(tab)] - slope * (m - (Len(tab) - 1))
     ELSE tab[m + 1]

\* the log-density at the point u
LogPdfInterp(tab, slope, u) ==
  LET k == u \div ZScale
      r == u % ZScale
      a == LogPdfKnot(tab, slope, k)
      b == LogPdfKnot(tab, slope, k + 1)
  IN a + ((b - a) * r) \div ZScale

\* logsumexp of a non-empty sequence of log-values
LSE2(a, b) ==
  LET d == Abs(a - b) \div LogOne
  IN Max2(a, b) + SoftplusTab[Min2(d, Len(SoftplusTab) - 1) + 1]
RECURSIVE logsumexp(_)
logsumexp(s) == IF Len(s) = 1 THEN s[1] ELSE LSE2(s[1], logsumexp(Tail(s)))

\* jax.nn.log_softmax of the weight logits
log_softmax(w) ==
  LET lw == [k \in DOMAIN w |-> LogOne * w[k]]
  IN [k \in DOMAIN w |-> lw[k] - logsumexp(lw)]

RECURSIVE MinSeq(_)
MinSeq(s) == IF Len(s) = 1 THEN s[1] ELSE Min2(s[1], MinSeq(Tail(s)))
\* exp(log_softmax(w)) as integer weights over their sum
SoftmaxNum(w) == [k \in DOMAIN w |-> 2 ^ (w[k] - MinSeq(w))]

\* (x - means) * exp(-0.5*log_scales) for the Gaussian mixture (line 270),
\* (x - means) * exp(-log_scales) for the logistic one (lines 298, 306)
ZScores(variant_, means, log_scales, x) ==
  [k \in DOMAIN means |->
     LET e == IF variant_ = "gaussian" THEN -log_scales[k] ELSE -2 * log_scales[k]
         \* the scaled value is evaluated at 4*ClampAt at most
         far == Min2(ClampAt * ZScale, Scale2(4 * ClampAt * ZScale, -Max2(e, 0)))
         dx == Max2(-far, Min2(far, x - means[k] * ZScale))
     IN Scale2(dx, e)]

CdfTabOf(variant_) == IF variant_ = "gaussian" THEN NormalCdfTab ELSE LogisticCdfTab

\* the mixture CDF at x, in 1/FUnit
mixture_cdf(variant_, weight_logits, means, log_scales, x) ==
  LET wn == SoftmaxNum(weight_logits)
      zs == ZScores(variant_, means, log_scales, x)
      terms == [k \in DOMAIN means |-> wn[k] * CdfInterp(CdfTabOf(variant_), zs[k])]
  IN SumSeq(terms) \div SumSeq(wn)

\* lines 334-336, 343-345: restrict_scales bounds the log-scales from below
\* by -7.0, which is -5 in the model's units of 2 ln 2
MinLogScale == -7
ScaleFloor == (MinLogScale * 5) \div 7
restrict_scales_off(log_scales) == log_scales
restrict_scales(log_scales) ==
  [k \in DOMAIN log_scales |-> Max2(ScaleFloor, log_scales[k])]

\* log(p/(1-p)) of a CDF value p, in 1/FUnit: the inverse of the logistic
\* CDF table, flat where the table has saturated
Logit(p) ==
  LET last == Len(LogisticCdfTab) - 1
      seg == {k \in -last..(last - 1) :
                /\ CdfKnot(LogisticCdfTab, k) * ZScale <= p
                /\ p < CdfKnot(LogisticCdfTab, k + 1) * ZScale}
  IN IF p <= CdfKnot(LogisticCdfTab, -last) * ZScale THEN -last * FUnit
     ELSE IF seg = {} THEN last * FUnit
     ELSE LET k == CHOOSE k \in seg : TRUE
              lo == CdfKnot(LogisticCdfTab, k)
              hi == CdfKnot(LogisticCdfTab, k + 1)
          IN k * FUnit + ((p - lo * ZScale) \div (hi - lo)) * One

\* nux.util.logistic_cdf_mixture_logit: the logit of the logistic mixture CDF
logistic_cdf_mixture_logit(weight_logits, means, log_scales, x) ==
  Logit(mixture_cdf("logistic", weight_logits, means, log_scales, x))

\* _GaussianMixtureMixin.f, _LogitsticMixtureMixin.f, _LogitsticMixtureLogitMixin.f
f(variant_, weight_logits, means, log_scales, x) ==
  IF variant_ = "logit"
  THEN logistic_cdf_mixture_logit(weight_logits, means, restrict_scales(log_scales), x)
  ELSE mixture_cdf(variant_, weight_logits, means, log_scales, x)

\* jnp.log of the ratio num/den, in LogOne units per ln 2; log(0) is -inf
NegInf == -(2 ^ 20)
RECURSIVE FloorLog2(_)
FloorLog2(n) == IF n <= 1 THEN 0 ELSE 1 + FloorLog2(n \div 2)
jnp_log(num, den) ==
  IF num <= 0 THEN NegInf ELSE LogOne * (FloorLog2(num) - FloorLog2(den))

\* lines 341-352: the derivative of logistic_cdf_mixture_logit along x (jvp
\* with tangent 1), here over one unit of x, and its logarithm
logit_log_det(weight_logits, means, log_scales, x) ==
  LET ls == restrict_scales(log_scales)
      dzdx == logistic_cdf_mixture_logit(weight_logits, means, ls, x + ZScale)
              - logistic_cdf_mixture_logit(weight_logits, means, ls, x)
  IN jnp_log(dzdx, FUnit)

\* _GaussianMixtureMixin.log_det, _LogitsticMixtureMixin.log_det: log pdf at x;
\* _LogitsticMixtureLogitMixin.log_det: the second output of f_and_log_det
log_det(variant_, weight_logits, means, log_scales, x) ==
  IF variant_ = "logit" THEN logit_log_det(weight_logits, means, log_scales, x) ELSE
  LET lw == log_softmax(weight_logits)
      zs == ZScores(variant_, means, log_scales, x)
      log_pdf == [k \in DOMAIN means |->
         IF variant_ = "gaussian"
         THEN LogPdfInterp(NormalLogPdfTab, NormalLogPdfSlope, zs[k])
              - LogOne * log_scales[k]
         ELSE -2 * LogOne * log_scales[k]
              + LogPdfInterp(LogisticLogPdfTab, LogisticLogPdfSlope, zs[k])]
  IN logsumexp([k \in DOMAIN means |-> lw[k] + log_pdf[k]])

\* f_and_log_det of MixtureCDF and CouplingMixtureCDF
f_and_log_det(variant_, weight_logits, means, log_scales, x) ==
  [z |-> f(variant_, weight_logits, means, log_scales, x),
   log_det |-> log_det(variant_, weight_logits, means, log_scales, x)]

\* 1.5*tanh(r/2) in units of ln 2: 0, 0.69, 1.14, 1.36, ... saturating at 1.5
Tanh15(r) ==
  LET tab == <<0, 1, 2, 2>>
      m == Min2(Abs(r), Len(tab) - 1)
  IN IF r >= 0 THEN tab[m + 1] ELSE -tab[m + 1]

\* lines 61-65 and 93-97: jnp.split(theta, [n, 2n, 3n, 3n+1]) with
\* n = (theta.shape[-1] - 2)//3
SubSeqOrEmpty(s, a, b) == IF a > b THEN <<>> ELSE SubSeq(s, a, Min2(b, Len(s)))
n_components(theta) == (Len(theta) - 2) \div 3
split(theta) ==
  LET n == n_components(theta)
  IN [weight_logits |-> SubSeqOrEmpty(theta, 1, n),
      means |-> SubSeqOrEmpty(theta, n + 1, 2 * n),
      log_scales |-> SubSeqOrEmpty(theta, 2 * n + 1, 3 * n),
      log_s |-> SubSeqOrEmpty(theta, 3 * n + 1, 3 * n + 1),
      t |-> SubSeqOrEmpty(theta, 3 * n + 2, Len(theta))]


\* line 114-115: the bracket of the mixture inverse
BracketHalf == 1000
\* bisection's defaults: atol (1e-8 in the source; here one unit of the CDF
\* tables) and max_iters
atol_default == ZScale
max_iters_default == MaxIters
\* line 52: the carry starts with dx = 10.0
InitDx == 10

\* mixture_forward for one element (needs_vmap maps it over the elements)
forward_elem(variant_, x, theta) ==
  LET p == split(theta)
      log_s == Tanh15(p.log_s[1])
      t == p.t[1]
      r == f_and_log_det(variant_, p.weight_logits, p.means, p.log_scales, x)
  IN [z |-> Scale2(r.z - t * FUnit, 1 - log_s),
      log_det |-> r.log_det,
      log_s |-> LogOne * log_s]

\* lines 59-89.  z counts 1/(2*FUnit), so that the division by exp(log_s) is exact
mixture_forward(variant_, x, theta) ==
  LET el == [e \in DOMAIN x |-> forward_elem(variant_, x[e], theta[e])]
  IN [z |-> [e \in DOMAIN x |-> el[e].z],
      log_det |-> SumSeq([e \in DOMAIN x |-> el[e].log_det])
                  + (-SumSeq([e \in DOMAIN x |-> el[e].log_s]))]

\* lines 98-106: undo the elementwise shift/scale
undo_affine_swapped(z, theta) ==
  LET p == split(theta)
  IN Scale2(z, -Tanh15(p.log_s[1]) - 1) - p.t[1] * FUnit
undo_affine(z, theta) ==
  LET p == split(theta)
  IN Scale2(z, Tanh15(p.log_s[1]) - 1) + p.t[1] * FUnit

elementwise_log_det_flipped(theta) ==
  SumSeq([e \in DOMAIN theta |-> LogOne * Tanh15(split(theta[e]).log_s[1])])
elementwise_log_det(theta) ==
  -SumSeq([e \in DOMAIN theta |-> LogOne * Tanh15(split(theta[e]).log_s[1])])

\* line 135: what mixture_inverse returns once the solver has returned z
inverse_log_det(variant_, z, theta) ==
  SumSeq([e \in DOMAIN z |->
            LET p == split(theta[e])
            IN log_det(variant_, p.weight_logits, p.means, p.log_scales, z[e])])
  + elementwise_log_det(theta)

(***************************************************************************)
(* bisection (lines 24-55).  The carry val holds one entry per element.    *)
(* Under vmap (mixture_inverse) every element runs its own loop; called    *)
(* on an array, cond_fun looks at all elements at once.                    *)
(***************************************************************************)
\* the functions bisection is called on directly, as CDF-valued fixed point
\* the last one is not monotonic
Fns == {"logistic", "linear", "steep", "vee"}
IncreasingFns == {"logistic", "linear", "steep"}
Fam(fn, z) ==
  CASE fn = "logistic" -> CdfInterp(LogisticCdfTab, z)
    [] fn = "linear" -> One * z
    [] fn = "steep" -> 2 * One * z
    [] fn = "vee" -> One * Abs(z)

\* the call bisection(f, lower, upper, x, atol, max_iters) in progress
\* line 91 (needs_vmap=True) and lines 330-331: the logit mixin fills in
\* needs_vmap=False for forward and inverse
needs_vmap_default(variant_) == TRUE
needs_vmap(variant_) == variant_ # "logit"

Call ==
  IF mx.kind = "bisection"
  THEN [atol |-> mx.atol, max_iters |-> mx.max_iters, vmapped |-> FALSE]
  ELSE [atol |-> atol_default, max_iters |-> max_iters_default,
        vmapped |-> needs_vmap(mx.variant)]

\* the f handed to bisection: filled_f of line 117, or the caller's function
EvalF(e, z) ==
  IF mx.kind = "bisection" THEN Fam(mx.fn, z)
  ELSE LET p == split(mx.theta[e])
       IN f(mx.variant, p.weight_logits, p.means, p.log_scales, z)

\* lines 42 and 52: z = zeros_like(x) and the initial carry
InitialCarry(x, lower, upper) ==
  [x |-> x,
   current_x |-> [e \in DOMAIN x |-> EvalF(e, 0)],
   current_z |-> [e \in DOMAIN x |-> 0],
   lower |-> lower,
   upper |-> upper,
   dx |-> [e \in DOMAIN x |-> InitDx * FUnit],
   i |-> [e \in DOMAIN x |-> 0]]

\* lines 24-38 for element e
bisection_body_swapped(v, e) ==
  LET gt == v.current_x[e] > v.x[e]
      new_z == IF gt THEN (v.current_z[e] + v.upper[e]) \div 2
               ELSE (v.current_z[e] + v.lower[e]) \div 2
  IN [x |-> v.x[e],
      current_x |-> EvalF(e, new_z),
      current_z |-> new_z,
      lower |-> IF gt THEN v.current_z[e] ELSE v.lower[e],
      upper |-> IF gt THEN v.upper[e] ELSE v.current_z[e],
      dx |-> EvalF(e, new_z) - v.x[e],
      i |-> v.i[e] + 1]
bisection_body(v, e) ==
  LET gt == v.current_x[e] > v.x[e]
      new_z == IF gt THEN (v.current_z[e] + v.lower[e]) \div 2
               ELSE (v.current_z[e] + v.upper[e]) \div 2
  IN [x |-> v.x[e],
      current_x |-> EvalF(e, new_z),
      current_z |-> new_z,
      lower |-> IF gt THEN v.lower[e] ELSE v.current_z[e],
      upper |-> IF gt THEN v.current_z[e] ELSE v.upper[e],
      dx |-> EvalF(e, new_z) - v.x[e],
      i |-> v.i[e] + 1]

\* lines 44-50: cond_fun, for element e under vmap, else for the whole array
cond_fun(v, e) ==
  LET es == IF Call.vmapped THEN {e} ELSE DOMAIN v.x
      max_iters_reached == v.i[e] > Call.max_iters
      tolerance_achieved == \A d \in es : Abs(v.dx[d]) <= Call.atol
  IN ~(max_iters_reached \/ tolerance_achieved)

\* one trip of jax.lax.while_loop (line 53)
while_loop_step(v) ==
  LET nv == [e \in DOMAIN v.x |-> IF cond_fun(v, e) THEN bisection_body(v, e)
                                   ELSE [x |-> v.x[e], current_x |-> v.current_x[e],
                                         current_z |-> v.current_z[e],
                                         lower |-> v.lower[e], upper |-> v.upper[e],
                                         dx |-> v.dx[e], i |-> v.i[e]]]
  IN [x |-> [e \in DOMAIN v.x |-> nv[e].x],
      current_x |-> [e \in DOMAIN v.x |-> nv[e].current_x],
      current_z |-> [e \in DOMAIN v.x |-> nv[e].current_z],
      lower |-> [e \in DOMAIN v.x |-> nv[e].lower],
      upper |-> [e \in DOMAIN v.x |-> nv[e].upper],
      dx |-> [e \in DOMAIN v.x |-> nv[e].dx],
      i |-> [e \in DOMAIN v.x |-> nv[e].i]]

Looping == \E e \in DOMAIN val.x : cond_fun(val, e)

\* lines 54-55: what bisection returns from the final carry
bisection_result_lower(v) == v.lower
bisection_result(v) == v.current_z

(***************************************************************************)
(* A forward pass of a mixture flow followed by the inverse pass on its    *)
(* output (MixtureCDF.call / CouplingMixtureCDF.transform with             *)
(* reverse=False, then reverse=True).                                      *)
(***************************************************************************)
MixVariants == {"gaussian", "logistic"}
ThetaVals == {-1, 0, 1}
XVals == {-7, -1, 0, 2}

\* line 176: theta has 3K+2 entries per element; line 241: the coupling
\* variant reshapes the network output to 3K entries per element
ThetaWidth(coupling, K) == IF coupling THEN 3 * K ELSE 3 * K + 2

\* the parameter vectors tried: at most two entries away from zero
Thetas(w) ==
  {[j \in 1..w |-> IF j = a THEN u ELSE IF j = b THEN v ELSE 0] :
     a \in 1..w, b \in 1..w, u \in ThetaVals, v \in ThetaVals}

\* the inputs tried: one element, or two where the second has theta = 0
MixInputs == {<<a>> : a \in XVals} \cup {<<a, 1>> : a \in XVals}

\* the training script is not running
TrainIdle ==
  /\ Fresh("A", 1)
  /\ print_every = 1
  /\ start_it = 0
  /\ i = 0
  /\ key = PRNGKey0
  /\ variant = "nif"
  /\ losses = [v \in Variants |-> <<>>]
  /\ disk = EmptyDisk
  /\ hist = <<>>
  /\ restarts = 0
  /\ pc = "idle"

InitMix ==
  /\ TrainIdle
  /\ \E v \in MixVariants, c \in BOOLEAN, K \in 1..MaxK, x \in MixInputs :
       \E th \in Thetas(ThetaWidth(c, K)) :
         mx = [kind |-> "mixture", variant |-> v, coupling |-> c, K |-> K,
               theta |-> [e \in DOMAIN x |->
                            IF e = 1 THEN th ELSE [j \in DOMAIN th |-> 0]],
               x |-> [e \in DOMAIN x |-> x[e] * ZScale]]
  /\ mpc = "call"
  /\ mres = [kind |-> None]
  /\ val = [kind |-> None]

\* mixture_forward (lines 59-89); with no components the reductions over the
\* empty component axis raise
Forward ==
  /\ mpc = "call"
  /\ mx.kind = "mixture"
  /\ IF \E e \in DOMAIN mx.x : n_components(mx.theta[e]) = 0
     THEN /\ mres' = [kind |-> "error"]
          /\ mpc' = "raised"
     ELSE /\ mres' = [kind |-> "forward",
                      n_components |-> n_components(mx.theta[1]),
                      fwd |-> mixture_forward(mx.variant, mx.x, mx.theta)]
          /\ mpc' = "forward_done"
  /\ UNCHANGED <<trainVars, mx, val>>

\* mixture_inverse up to the call of bisection (lines 91-118, 42, 52)
InverseStart ==
  /\ mpc = "forward_done"
  /\ val' = InitialCarry([e \in DOMAIN mx.x |-> undo_affine(mres.fwd.z[e], mx.theta[e])],
                         [e \in DOMAIN mx.x |-> -(BracketHalf * ZScale)],
                         [e \in DOMAIN mx.x |-> BracketHalf * ZScale])
  /\ mpc' = "solving"
  /\ UNCHANGED <<trainVars, mx, mres>>

\* line 53: one more trip around the loop, for the elements still looping
BisectionStep ==
  /\ mpc = "solving"
  /\ Looping
  /\ val' = while_loop_step(val)
  /\ UNCHANGED <<trainVars, mx, mres, mpc>>

\* lines 54-55 and 118-135: bisection returns current_z, mixture_inverse
\* returns it with the log-determinant
InverseReturn ==
  /\ mpc = "solving"
  /\ mx.kind = "mixture"
  /\ ~Looping
  /\ mres' = [kind |-> "inverse",
              n_components |-> mres.n_components,
              fwd |-> mres.fwd,
              inv |-> [z |-> bisection_result(val),
                       log_det |-> inverse_log_det(mx.variant, bisection_result(val),
                                                   mx.theta)]]
  /\ mpc' = "done"
  /\ UNCHANGED <<trainVars, mx, val>>

NextMix ==
  \/ Forward
  \/ InverseStart
  \/ BisectionStep
  \/ InverseReturn

SpecMix == InitMix /\ [][NextMix]_vars

(***************************************************************************)
(* bisection called on its own.                                            *)
(***************************************************************************)
\* the brackets tried, per function
Brackets(fn) ==
  IF fn = "logistic" THEN {<<-BracketHalf, BracketHalf>>, <<-8, 8>>, <<1, 5>>}
  ELSE {<<-8, 8>>, <<1, 5>>, <<-6, -2>>}
RootVals == {-5, -4, -1, 0, 3}
\* the targets are f at one or two of the roots
Roots == {<<a>> : a \in RootVals} \cup {<<a, b>> : a \in RootVals, b \in RootVals}
Atols == {0, atol_default}
MaxItersTried == {0, 3, max_iters_default}

InitBis ==
  /\ TrainIdle
  /\ \E fn \in Fns, r \in Roots, a \in Atols, m \in MaxItersTried :
       \E br \in Brackets(fn) :
         mx = [kind |-> "bisection", fn |-> fn,
               lower |-> br[1] * ZScale, upper |-> br[2] * ZScale,
               r |-> [e \in DOMAIN r |-> r[e] * ZScale],
               x |-> [e \in DOMAIN r |-> Fam(fn, r[e] * ZScale)],
               atol |-> a, max_iters |-> m]
  /\ mpc = "call"
  /\ mres = [kind |-> None]
  /\ val = [kind |-> None]

\* lines 42 and 52
BisectionStart ==
  /\ mpc = "call"
  /\ mx.kind = "bisection"
  /\ val' = InitialCarry(mx.x, [e \in DOMAIN mx.x |-> mx.lower],
                         [e \in DOMAIN mx.x |-> mx.upper])
  /\ mpc' = "solving"
  /\ UNCHANGED <<trainVars, mx, mres>>

\* lines 54-55
BisectionReturn ==
  /\ mpc = "solving"
  /\ mx.kind = "bisection"
  /\ ~Looping
  /\ mres' = [kind |-> "bisection", z |-> bisection_result(val)]
  /\ mpc' = "done"
  /\ UNCHANGED <<trainVars, mx, val>>

NextBis ==
  \/ BisectionStart
  \/ BisectionStep
  \/ BisectionReturn

SpecBis == InitBis /\ [][NextBis]_vars

(***************************************************************************)
(* The coupling wrapper around the mixture transform                       *)
(* (CouplingMixtureCDF on top of CouplingBase): split x into xa and xb,    *)
(* let the conditioner derive theta from xa, transform xb.                 *)
(***************************************************************************)
XaVals == {-1, 0, 1}
Conditions == {0, 1}

\* CouplingBase: the input is split along its last axis into two halves
coupling_split(x) ==
  [xa |-> SubSeq(x, 1, Len(x) \div 2), xb |-> SubSeq(x, Len(x) \div 2 + 1, Len(x))]

\* lines 230-233: the conditioner's output width for the half xb
get_out_shape(xb, K) == Len(xb) * 3 * K

\* the conditioner network: a fixed function of xa and the side condition
Conditioner(xa, condition, out_dim) ==
  [j \in 1..out_dim |-> ((SumSeq(xa) + condition + j) % 3) - 1]

\* line 241: theta = params.reshape(x.shape + (3*n_components,))
transform_theta_leaky(x, params, K) ==
  [e \in DOMAIN x |->
     [j \in 1..(3 * K) |-> ((params[(e - 1) * 3 * K + j] + (x[e] \div ZScale) + 1) % 3) - 1]]
transform_theta(x, params, K) ==
  [e \in DOMAIN x |-> [j \in 1..(3 * K) |-> params[(e - 1) * 3 * K + j]]]

\* the theta the wrapper hands to the transform for the input (xa, xb)
ThetaFor(xa, xb, condition, K) ==
  transform_theta(xb, Conditioner(xa, condition, get_out_shape(xb, K)), K)

InitCoupling ==
  /\ TrainIdle
  /\ \E v \in MixVariants, K \in 1..MaxK, a \in XaVals, b \in XVals, c \in Conditions :
       mx = [kind |-> "coupling", variant |-> v, coupling |-> TRUE, K |-> K,
             condition |-> c,
             xa |-> coupling_split(<<a, b * ZScale>>).xa,
             x |-> coupling_split(<<a, b * ZScale>>).xb,
             theta |-> <<>>]
  /\ mpc = "call"
  /\ mres = [kind |-> None]
  /\ val = [kind |-> None]

\* the wrapper with sample = False: transform (lines 235-247) applied to xb
CouplingForward ==
  /\ mpc = "call"
  /\ mx.kind = "coupling"
  /\ LET theta == ThetaFor(mx.xa, mx.x, mx.condition, mx.K)
     IN /\ mx' = [mx EXCEPT !.theta = theta]
        /\ IF \E e \in DOMAIN mx.x : n_components(theta[e]) = 0
           THEN /\ mres' = [kind |-> "error"]
                /\ mpc' = "raised"
           ELSE /\ mres' = [kind |-> "forward",
                            n_components |-> n_components(theta[1]),
                            xa |-> mx.xa,
                            fwd |-> mixture_forward(mx.variant, mx.x, theta)]
                /\ mpc' = "forward_done"
  /\ UNCHANGED <<trainVars, val>>

\* the wrapper with sample = True on the forward output: theta is derived
\* from the pass-through half again, then mixture_inverse starts
CouplingInverseStart ==
  /\ mpc = "forward_done"
  /\ mx.kind = "coupling"
  /\ LET theta == ThetaFor(mres.xa, mres.fwd.z, mx.condition, mx.K)
         x == [e \in DOMAIN mx.x |-> undo_affine(mres.fwd.z[e], theta[e])]
     IN /\ mx' = [mx EXCEPT !.theta = theta]
        /\ val' = [x |-> x,
                   current_x |-> [e \in DOMAIN x |->
                      LET p == split(theta[e])
                      IN f(mx.variant, p.weight_logits, p.means, p.log_scales, 0)],
                   current_z |-> [e \in DOMAIN x |-> 0],
                   lower |-> [e \in DOMAIN x |-> -(BracketHalf * ZScale)],
                   upper |-> [e \in DOMAIN x |-> BracketHalf * ZScale],
                   dx |-> [e \in DOMAIN x |-> InitDx * FUnit],
                   i |-> [e \in DOMAIN x |-> 0]]
  /\ mpc' = "solving"
  /\ UNCHANGED <<trainVars, mres>>

\* the wrapper returns concat(xa, inverted xb)
CouplingInverseReturn ==
  /\ mpc = "solving"
  /\ mx.kind = "coupling"
  /\ ~Looping
  /\ mres' = [kind |-> "inverse",
              n_components |-> mres.n_components,
              xa |-> mres.xa,
              fwd |-> mres.fwd,
              inv |-> [xa |-> mres.xa,
                       z |-> bisection_result(val),
                       log_det |-> inverse_log_det(mx.variant, bisection_result(val),
                                                   mx.theta)]]
  /\ mpc' = "done"
  /\ UNCHANGED <<trainVars, mx, val>>

NextCoupling ==
  \/ CouplingForward
  \/ CouplingInverseStart
  \/ BisectionStep
  \/ CouplingInverseReturn

SpecCoupling == InitCoupling /\ [][NextCoupling]_vars

(***************************************************************************)
(* ZeroPadding (augmented.py): the dimension-changing layer.               *)
(***************************************************************************)
MaxDim == 3          \* input_dim and output_dim range over 1..MaxDim
PadVals == {0, 1}
Rngs == {0, 1}
\* all sequences of length n over PadVals
PadInputs(n) == [1..n -> PadVals]

\* lines 59-69
kind(input_dim, output_dim) == IF input_dim > output_dim THEN "tall" ELSE "wide"
small_dim_is_input(input_dim, output_dim) == input_dim
small_dim(input_dim, output_dim) == IF input_dim > output_dim THEN output_dim ELSE input_dim
big_dim(input_dim, output_dim) == IF input_dim > output_dim THEN input_dim ELSE output_dim

\* lines 108-111: which direction this call goes
big_to_small_always(k, sample) == TRUE
big_to_small(k, sample) ==
  IF sample = FALSE THEN (IF k = "tall" THEN TRUE ELSE FALSE)
  ELSE (IF k = "tall" THEN FALSE ELSE TRUE)

\* the inner flow over the noise, conditioned on the kept part: the
\* log-density it reports (log_det + log_pz) and the noise it samples
FlowLogProb(noise, condition) == -(SumSeq(noise) + 2 * SumSeq(condition) + Len(noise))
FlowSample(condition, noise_dim, rng) ==
  [j \in 1..noise_dim |-> (SumSeq(condition) + rng + j) % 2]

\* lines 99-146
ZeroPadding_call(input_dim, output_dim, x, rng, sample) ==
  LET k == kind(input_dim, output_dim)
      small == small_dim(input_dim, output_dim)
      big == big_dim(input_dim, output_dim)
      noise_dim == big - small
  IN IF big_to_small(k, sample)
     THEN LET z == SubSeqOrEmpty(x, 1, small)
              noise == SubSeqOrEmpty(x, small + 1, Len(x))
          IN [x |-> z, log_det |-> 0 + FlowLogProb(noise, z),
              big_to_small |-> TRUE, captured_output |-> TRUE]
     ELSE LET noise == FlowSample(x, noise_dim, rng)
          IN [x |-> x \o noise, log_det |-> 0 - FlowLogProb(noise, x),
              big_to_small |-> FALSE, captured_output |-> FALSE]

InitPad ==
  /\ TrainIdle
  /\ \E din \in 1..MaxDim, dout \in 1..MaxDim, sample \in BOOLEAN, rng \in Rngs :
       \E x \in PadInputs(IF sample THEN dout ELSE din) :
         mx = [kind |-> "zero_padding", input_dim |-> din, output_dim |-> dout,
               sample |-> sample, rng |-> rng, x |-> x]
  /\ mpc = "call"
  /\ mres = [kind |-> None]
  /\ val = [kind |-> None]

PadCall ==
  /\ mpc = "call"
  /\ mx.kind = "zero_padding"
  /\ mres' = [kind |-> "padded",
              out |-> ZeroPadding_call(mx.input_dim, mx.output_dim, mx.x, mx.rng, mx.sample)]
  /\ mpc' = "done"
  /\ UNCHANGED <<trainVars, mx, val>>

\* the same layer called on its own output in the other direction
PadBack ==
  /\ mpc = "done"
  /\ mx.kind = "zero_padding"
  /\ mres' = [kind |-> "round_trip",
              out |-> mres.out,
              back |-> ZeroPadding_call(mx.input_dim, mx.output_dim, mres.out.x,
                                        mx.rng, ~mx.sample)]
  /\ mpc' = "back"
  /\ UNCHANGED <<trainVars, mx, val>>

NextPad ==
  \/ PadCall
  \/ PadBack

SpecPad == InitPad /\ [][NextPad]_vars

(***************************************************************************)
(* The affine-Gaussian priors (priors.py), inverse direction.              *)
(* A function body is the list of its statements, each with the names it   *)
(* reads and the names it binds; reading a name that is bound neither in   *)
(* the function, nor in the enclosing function, nor in the module raises   *)
(* NameError.                                                              *)
(***************************************************************************)
PriorVariants == {"full_cov", "diag_cov"}
\* the key passed to the inverse: NoKey when none is passed
PriorKeys == {NoKey, 0, 1}
\* A has shape (x_dim, z_dim): a sequence of rows
PriorAs == {<<<<1>>, <<0>>>>, <<<<1>>, <<2>>>>, <<<<1, 0>>, <<0, 1>>>>, <<<<1, 1>>, <<0, 2>>>>}
PriorZs(z_dim) == [1..z_dim -> {-1, 1}]
\* log_diag_cov (diag_cov) or the log of the Cholesky diagonal (full_cov),
\* one value for every coordinate, in units of 2 ln 2
PriorLogCovs == {0, 1}

\* lines 1-7 and the three definitions of the module
ModuleNames == {"jax", "jnp", "vmap", "random", "jit", "jaxinit", "partial", "util",
                "base", "UnitGaussianPrior", "AffineGaussianPriorFullCov",
                "AffineGaussianPriorDiagCov"}
\* the names of the enclosing function (lines 40-46, 141)
ClosureNames(pv) ==
  IF pv = "full_cov"
  THEN {"out_dim", "A_init", "Sigma_chol_init", "name", "triangular_indices",
        "forward", "inverse", "apply_fun", "create_params_and_state"}
  ELSE {"out_dim", "A_init", "name", "forward", "inverse", "apply_fun",
        "create_params_and_state"}
ArgNames == {"params", "state", "inputs", "kwargs"}

Stmt(line, reads, writes) == [line |-> line, reads |-> reads, writes |-> writes]

\* lines 82-110 and 180-206, along the branch taken for the key
inverse_body(pv, has_key) ==
  IF pv = "full_cov"
  THEN <<Stmt(83, {"inputs"}, {"z"}),
         Stmt(86, {"params"}, {"A", "Sigma_chol_flat"}),
         Stmt(91, {"A", "z"}, {"x"}),
         Stmt(93, {"Sigma_chol_flat", "triangular_indices"}, {"Sigma_chol"}),
         Stmt(94, {"jnp", "Sigma_chol"}, {"diag"}),
         Stmt(95, {"jax", "jnp", "Sigma_chol", "diag"}, {"Sigma_chol"}),
         Stmt(97, {"kwargs"}, {"key"})>>
       \o (IF has_key
           THEN <<Stmt(99, {"state"}, {"sigma"}),
                  Stmt(100, {"random", "key", "x", "sigma"}, {"noise"}),
                  Stmt(101, {"x", "jnp", "noise", "Sigma_chol"}, {"x"})>>
           ELSE <<Stmt(103, {"jnp", "x"}, {"noise"})>>)
       \o <<Stmt(106, {"util", "noise", "jnp", "log_diag_cov"}, {"log_px"}),
            Stmt(108, {"outputs", "x"}, {}),
            Stmt(109, {"outputs", "log_px"}, {}),
            Stmt(110, {"outputs", "state"}, {})>>
  ELSE <<Stmt(183, {"inputs"}, {"z"}),
         Stmt(185, {"params"}, {"A", "log_diag_cov"}),
         Stmt(188, {"jnp", "A", "z"}, {"x"}),
         Stmt(190, {"kwargs"}, {"key"})>>
       \o (IF has_key
           THEN <<Stmt(193, {"state"}, {"sigma"}),
                  Stmt(194, {"random", "key", "x", "jnp", "log_diag_cov", "sigma"}, {"noise"}),
                  Stmt(195, {"x", "noise"}, {"x"}),
                  Stmt(198, {"util", "noise", "jnp", "log_diag_cov"}, {"log_px"})>>
           ELSE <<Stmt(201, {"jnp", "A"}, {"log_px"})>>)
       \o <<Stmt(203, {}, {"outputs"}),
            Stmt(204, {"outputs", "x"}, {}),
            Stmt(205, {"outputs", "log_px"}, {}),
            Stmt(206, {"outputs", "state"}, {})>>

\* the line of the first statement that reads an unbound name, 0 if none does
RECURSIVE NameErrorLine(_, _)
NameErrorLine(stmts, bound) ==
  IF stmts = <<>> THEN 0
  ELSE IF ~(Head(stmts).reads \subseteq bound) THEN Head(stmts).line
       ELSE NameErrorLine(Tail(stmts), bound \cup Head(stmts).writes)

MatVec(A, z) == [r \in DOMAIN A |-> SumSeq([c \in DOMAIN z |-> A[r][c] * z[c]])]
\* A^T A
Gram(A) ==
  [a \in DOMAIN A[1] |-> [b \in DOMAIN A[1] |->
     SumSeq([r \in DOMAIN A |-> A[r][a] * A[r][b]])]]
\* random.normal(key, shape)
random_normal(k, n) == [j \in 1..n |-> ((k + j) % 3) - 1]

\* what the inverse computes when every name it reads is bound
inverse(pv, A, log_cov, sigma, z, k) ==
  LET Az == MatVec(A, z)
  IN IF k # NoKey
     THEN LET noise == [j \in DOMAIN Az |-> random_normal(k, Len(Az))[j] * (2 ^ log_cov) * sigma]
          IN [x |-> [j \in DOMAIN Az |-> Az[j] + noise[j]],
              log_det |-> [fn |-> "gaussian_logpdf", noise |-> noise,
                           mean |-> [j \in DOMAIN Az |-> 0], log_cov |-> log_cov]]
     ELSE IF pv = "full_cov"
          THEN [x |-> Az,
                log_det |-> [fn |-> "gaussian_logpdf", noise |-> [j \in DOMAIN Az |-> 0],
                             mean |-> [j \in DOMAIN Az |-> 0], log_cov |-> log_cov]]
          ELSE [x |-> Az, log_det |-> [fn |-> "neg_half_slogdet", of |-> Gram(A)]]

InitPrior ==
  /\ TrainIdle
  /\ \E pv \in PriorVariants, k \in PriorKeys, A \in PriorAs, lc \in PriorLogCovs :
       \E z \in PriorZs(Len(A[1])) :
         mx = [kind |-> "prior", variant |-> pv, key |-> k, A |-> A, log_cov |-> lc,
               state |-> [sigma |-> 1], x |-> z]
  /\ mpc = "call"
  /\ mres = [kind |-> None]
  /\ val = [kind |-> None]

\* apply_fun(params, state, inputs, reverse=True, key=...)
PriorInverse ==
  /\ mpc = "call"
  /\ mx.kind = "prior"
  /\ LET line == NameErrorLine(inverse_body(mx.variant, mx.key # NoKey),
                               ModuleNames \cup ClosureNames(mx.variant) \cup ArgNames)
     IN IF line # 0
        THEN /\ mres' = [kind |-> "error", error |-> "NameError", line |-> line]
             /\ mpc' = "raised"
        ELSE /\ mres' = [kind |-> "outputs",
                         outputs |-> inverse(mx.variant, mx.A, mx.log_cov,
                                             mx.state.sigma, mx.x, mx.key),
                         state |-> mx.state]
             /\ mpc' = "done"
  /\ UNCHANGED <<trainVars, mx, val>>

NextPrior == PriorInverse

SpecPrior == InitPrior /\ [][NextPrior]_vars

(***************************************************************************)
(* Construction of the conditioner networks (mlp.py, cnn.py).              *)
(***************************************************************************)
NetClasses == {"MLP", "RepeatedConv", "ConvBlock", "CNN"}
KnownNonlinearities == {"relu", "tanh", "sigmoid", "swish", "lipswish"}
NonlinearityNames == KnownNonlinearities \cup {"gelu", "ReLU"}
KnownNormalizations == {"batch_norm", "instance_norm"}
NormalizationNames == KnownNormalizations \cup {None, "layer_norm", "batchnorm"}
BlockTypes == {"bottleneck", "reverse_bottleneck", "resnet"}

\* the names bound where the nonlinearity is looked up: the constructor's
\* arguments and the module's names; none of the three has an x
InitNames(cls) ==
  {"self", "nonlinearity", "parameter_norm", "w_init", "b_init", "name",
   "jnp", "jit", "random", "partial", "jax", "hk", "sn", "init"}
  \cup (IF cls = "MLP" THEN {"out_dim", "layer_sizes"}
        ELSE IF cls = "ConvBlock" THEN {"out_channel", "hidden_channel", "norm", "use_bias", "util"}
        ELSE {"channel_sizes", "kernel_shapes", "stride", "padding", "lhs_dilation",
              "rhs_dilation", "use_bias", "normalization", "util"})

\* mlp.py 71-82, cnn.py 166-177 and 277-288: MLP and ConvBlock call
\* jax.nn.swish(x) while constructing, RepeatedConv stores jax.nn.swish
nonlinearity_of(cls, nonlinearity) ==
  CASE nonlinearity = "relu" -> [kind |-> "ok", fn |-> "relu"]
    [] nonlinearity = "tanh" -> [kind |-> "ok", fn |-> "tanh"]
    [] nonlinearity = "sigmoid" -> [kind |-> "ok", fn |-> "sigmoid"]
    [] nonlinearity = "swish" ->
         IF cls \in {"MLP", "ConvBlock"} /\ "x" \notin InitNames(cls)
         THEN [kind |-> "error", error |-> "NameError"]
         ELSE [kind |-> "ok", fn |-> "swish"]
    [] nonlinearity = "lipswish" -> [kind |-> "ok", fn |-> "lipswish"]
    [] OTHER -> [kind |-> "error", error |-> "AssertionError"]

\* cnn.py 179-191 (RepeatedConv) and 273, 290-298 (ConvBlock): the
\* normalization layers the network will apply
norm_of(cls, normalization) ==
  CASE normalization = "batch_norm" -> "batch_norm"
    [] normalization = "instance_norm" -> "instance_norm"
    [] OTHER -> None

\* cnn.py 385-390
conv_block_of(block_type) ==
  CASE block_type = "bottleneck" -> [kind |-> "ok", cls |-> "BottleneckConv"]
    [] block_type = "reverse_bottleneck" -> [kind |-> "ok", cls |-> "ReverseBottleneckConv"]
    [] OTHER -> [kind |-> "error", error |-> "AssertionError"]

\* the constructor of MLP, RepeatedConv or ConvBlock
construct(cls, nonlinearity, normalization) ==
  LET nl == nonlinearity_of(cls, nonlinearity)
  IN IF nl.kind = "error" THEN nl
     ELSE [kind |-> "network", cls |-> cls, nonlinearity |-> nl.fn,
           norm |-> norm_of(cls, normalization)]

InitNet ==
  /\ TrainIdle
  /\ \E cls \in NetClasses, nl \in NonlinearityNames, nm \in NormalizationNames,
        bt \in BlockTypes :
       /\ cls = "MLP" => nm = None
       /\ cls # "CNN" => bt = "reverse_bottleneck"
       /\ mx = [kind |-> "network", cls |-> cls, nonlinearity |-> nl,
                normalization |-> nm, block_type |-> bt]
  /\ mpc = "call"
  /\ mres = [kind |-> None]
  /\ val = [kind |-> None]

\* MLP.__init__, RepeatedConv.__init__, ConvBlock.__init__, CNN.__init__
Construct ==
  /\ mpc = "call"
  /\ mx.kind = "network"
  /\ IF mx.cls = "CNN"
     THEN LET cb == conv_block_of(mx.block_type)
          IN IF cb.kind = "error"
             THEN mres' = cb /\ mpc' = "raised"
             ELSE /\ mres' = [kind |-> "network", cls |-> "CNN", conv_block |-> cb.cls,
                              blocks |-> <<>>]
                  /\ mpc' = "constructed"
     ELSE LET r == construct(mx.cls, mx.nonlinearity, mx.normalization)
          IN /\ mres' = r
             /\ mpc' = IF r.kind = "error" THEN "raised" ELSE "done"
  /\ UNCHANGED <<trainVars, mx, val>>

\* CNN.__call__ lines 393-395: the first block is built, a RepeatedConv
BuildBlock ==
  /\ mpc = "constructed"
  /\ mx.kind = "network"
  /\ LET r == construct("RepeatedConv", mx.nonlinearity, mx.normalization)
     IN IF r.kind = "error"
        THEN mres' = r /\ mpc' = "raised"
        ELSE /\ mres' = [mres EXCEPT !.blocks = Append(@, r)]
             /\ mpc' = "done"
  /\ UNCHANGED <<trainVars, mx, val>>

NextNet ==
  \/ Construct
  \/ BuildBlock

SpecNet == InitNet /\ [][NextNet]_vars

(***************************************************************************)
(* The logit-mixture flows (LogitsticMixtureLogit and                      *)
(* CouplingLogitsticMixtureLogit): a forward pass followed by the inverse  *)
(* pass on its output.                                                     *)
(***************************************************************************)
\* the parameter vectors tried for the logit flows: the affine scale does
\* not shrink, so that the transformed values stay in range
\* and vectors whose first log-scale is at the floor of restrict_scales or
\* below it
LowScaleThetas(w) ==
  LET n == (w - 2) \div 3
  IN IF n < 1 THEN {}
     ELSE {[j \in 1..w |-> IF j = 2 * n + 1 THEN v ELSE 0] :
             v \in {ScaleFloor - 1, ScaleFloor}}
LogitThetas(w) ==
  {th \in Thetas(w) : /\ Tanh15(split(th).log_s[1]) >= 0
                      /\ \A a, b \in 1..w : (th[a] # 0 /\ th[b] # 0) => b - a \in {-1, 0, 1}}
  \cup LowScaleThetas(w)
\* the inputs tried for the logit flows, in 1/ZScale; the last one is one
\* unit of the z-score away from the mean at the floor scale
LogitInputs ==
  {[e \in DOMAIN x |-> x[e] * ZScale] :
     x \in {x \in MixInputs : x = <<0>> \/ (Len(x) = 2 /\ x[1] \in {-1, 2})}}
  \cup {<<Scale2(ZScale, 2 * ScaleFloor)>>}

InitLogit ==
  /\ TrainIdle
  /\ \E c \in BOOLEAN, K \in 1..MaxK, x \in LogitInputs :
       \E th \in LogitThetas(ThetaWidth(c, K)) :
         mx = [kind |-> "mixture", variant |-> "logit", coupling |-> c, K |-> K,
               theta |-> [e \in DOMAIN x |->
                            IF e = 1 THEN th ELSE [j \in DOMAIN th |-> 0]],
               x |-> x]
  /\ mpc = "call"
  /\ mres = [kind |-> None]
  /\ val = [kind |-> None]

SpecLogit == InitLogit /\ [][NextMix]_vars

(***************************************************************************)
(* The vmap nest of mixture_forward and mixture_inverse (lines 70-82 and   *)
(* 120-127) on arrays with more than one axis.  An array is a nested       *)
(* sequence with its shape alongside; the parameter array carries the      *)
(* component axis last.                                                    *)
(***************************************************************************)
MaxAxis == 2         \* the axis lengths tried are 1..MaxAxis

\* the array of the given shape whose entry at a multi-index is that index
RECURSIVE IndexArray(_, _)
IndexArray(shape, prefix) ==
  IF shape = <<>> THEN prefix
  ELSE [j \in 1..Head(shape) |-> IndexArray(Tail(shape), Append(prefix, j))]

\* row-major flattening of the first `depth` axes
RECURSIVE Flatten(_, _)
RECURSIVE FlattenFrom(_, _, _)
Flatten(depth, A) == IF depth = 0 THEN <<A>> ELSE FlattenFrom(depth, A, 1)
FlattenFrom(depth, A, j) ==
  IF j > Len(A) THEN <<>>
  ELSE Flatten(depth - 1, A[j]) \o FlattenFrom(depth, A, j + 1)

\* lines 74-77 and 122-125: in_axes[k] = None if param.ndim - 1 <= i else 0;
\* TRUE stands for 0 (mapped along the leading axis), FALSE for None
in_axes(param_ndim, i_) == ~(param_ndim - 1 <= i_)

\* vmap refuses mapped arguments whose leading axes differ in length.
\* `level` vmaps are still around the function; the outermost was built
\* last, with i = level - 1
RECURSIVE vmap_raises(_, _, _)
vmap_raises(level, pshape, xshape) ==
  IF level = 0 THEN FALSE
  ELSE IF in_axes(Len(pshape), level - 1)
       THEN \/ Head(pshape) # Head(xshape)
            \/ vmap_raises(level - 1, Tail(pshape), Tail(xshape))
       ELSE vmap_raises(level - 1, pshape, Tail(xshape))

\* the slice of the parameter array P (param_ndim axes left) that reaches
\* the innermost function for every entry of X
RECURSIVE vmapped(_, _, _, _)
vmapped(level, P, param_ndim, X) ==
  IF level = 0 THEN P
  ELSE IF in_axes(param_ndim, level - 1)
       THEN [j \in 1..Len(X) |-> vmapped(level - 1, P[j], param_ndim - 1, X[j])]
       ELSE [j \in 1..Len(X) |-> vmapped(level - 1, P, param_ndim, X[j])]

\* per element of x in row-major order, the parameters it is transformed with
vmap_thetas(P, pshape, xshape) ==
  Flatten(Len(xshape),
          vmapped(Len(xshape), P, Len(pshape) + 1, IndexArray(xshape, <<>>)))

\* the shapes tried: x with one or two axes, the parameters with at most as
\* many axes (before the component axis)
AxisShapes(n) == [1..n -> 1..MaxAxis]
XShapes == AxisShapes(1) \cup AxisShapes(2)
PShapes(xshape) == UNION {AxisShapes(n) : n \in 0..Len(xshape)}

\* the parameters at a multi-index: one component; the mean follows the first
\* index, the shift t the second, the affine log-scale is 0
ThetaAt(idx) ==
  <<0, IF Len(idx) >= 1 THEN idx[1] - 1 ELSE 0, 0, 0,
    IF Len(idx) >= 2 THEN idx[2] - 1 ELSE 0>>
RECURSIVE ThetaArray(_, _)
ThetaArray(shape, prefix) ==
  IF shape = <<>> THEN ThetaAt(prefix)
  ELSE [j \in 1..Head(shape) |-> ThetaArray(Tail(shape), Append(prefix, j))]

\* the entry of x at a multi-index, around a base value
XAt(idx, base) == (base + SumSeq(idx) - Len(idx)) * ZScale
XBases == {-1, 0, 1}

InitShare ==
  /\ TrainIdle
  /\ \E v \in MixVariants, xshape \in XShapes, base \in XBases :
       \E pshape \in PShapes(xshape) :
         mx = [kind |-> "mixture", variant |-> v, coupling |-> FALSE, K |-> 1,
               xshape |-> xshape, pshape |-> pshape,
               P |-> ThetaArray(pshape, <<>>),
               theta |-> <<>>,
               x |-> [e \in DOMAIN Flatten(Len(xshape), IndexArray(xshape, <<>>)) |->
                        XAt(Flatten(Len(xshape), IndexArray(xshape, <<>>))[e], base)]]
  /\ mpc = "call"
  /\ mres = [kind |-> None]
  /\ val = [kind |-> None]

\* mixture_forward (lines 59-89) on the arrays: the vmap nest pairs every
\* element of x with its parameters, or refuses the shapes
ShareForward ==
  /\ mpc = "call"
  /\ mx.kind = "mixture"
  /\ IF vmap_raises(Len(mx.xshape), Append(mx.pshape, Len(ThetaAt(<<>>))), mx.xshape)
     THEN /\ mres' = [kind |-> "error"]
          /\ mpc' = "raised"
          /\ mx' = mx
     ELSE LET theta == vmap_thetas(mx.P, mx.pshape, mx.xshape)
          IN /\ mx' = [mx EXCEPT !.theta = theta]
             /\ mres' = [kind |-> "forward",
                         n_components |-> n_components(theta[1]),
                         fwd |-> mixture_forward(mx.variant, mx.x, theta)]
             /\ mpc' = "forward_done"
  /\ UNCHANGED <<trainVars, val>>

\* mixture_inverse (lines 91-118) on the forward output: the same nest is
\* built around the solver, then the loops start
ShareInverseStart ==
  /\ mpc = "forward_done"
  /\ mx.kind = "mixture"
  /\ ~vmap_raises(Len(mx.xshape), Append(mx.pshape, Len(ThetaAt(<<>>))), mx.xshape)
  /\ LET theta == vmap_thetas(mx.P, mx.pshape, mx.xshape)
         x == [e \in DOMAIN mx.x |-> undo_affine(mres.fwd.z[e], theta[e])]
     IN /\ mx' = [mx EXCEPT !.theta = theta]
        /\ val' = [x |-> x,
                   current_x |-> [e \in DOMAIN x |->
                      LET p == split(theta[e])
                      IN f(mx.variant, p.weight_logits, p.means, p.log_scales, 0)],
                   current_z |-> [e \in DOMAIN x |-> 0],
                   lower |-> [e \in DOMAIN x |-> -(BracketHalf * ZScale)],
                   upper |-> [e \in DOMAIN x |-> BracketHalf * ZScale],
                   dx |-> [e \in DOMAIN x |-> InitDx * FUnit],
                   i |-> [e \in DOMAIN x |-> 0]]
  /\ mpc' = "solving"
  /\ UNCHANGED <<trainVars, mres>>

NextShare ==
  \/ ShareForward
  \/ ShareInverseStart
  \/ BisectionStep
  \/ InverseReturn

SpecShare == InitShare /\ [][NextShare]_vars

(***************************************************************************)
(* Properties of the training script.                                      *)
(***************************************************************************)
Synced(rep) == \A d \in DOMAIN rep : rep[d] = rep[1]
BetweenSteps == pc \in {"loop", "finished"}
\* the process has just loaded the checkpoint of iteration start_it
JustResumed == pc = "loop" /\ restarts > 0 /\ i = start_it + 1
\* the sum of the local gradients of all devices of the running step
TotalGrad == [j \in 1..NumLeaves(ParamDef(model_type)) |->
                SumOver(grads, Devices, j) % ValMod]

\* C4: between training steps all device replicas hold the same optimizer
\* state, for each flow, whatever the number of devices and the data shards.
Thm_C4_OptStateSynced ==
  BetweenSteps => \A v \in Variants : Synced(replicated_opt_state[v])

Wit_C4_OptStateSynced ==
  /\ pc = "loop" /\ i >= 2 /\ n_gpus >= 2
  /\ x_batch[1] # x_batch[2]
  /\ grads[1] # grads[2]
  /\ \A v \in Variants : Synced(replicated_opt_state[v])
  /\ replicated_opt_state["nf"][1] # Zeros(ParamDef(model_type))

\* C5 (as claimed): at the start of every step every device replica holds the
\* same FlowState.
CE_C5_FlowStateSynced ==
  pc = "loop" => \A v \in Variants : Synced(replicated_state[v])

\* C6: whenever a device applies its optimizer update, every device has
\* contributed its local gradient of that step and the update is fed the sum
\* of all of them; with one device that sum is the device's own gradient.
Thm_C6_UpdateUsesSum ==
  [][\A d \in Devices :
       (pc = "step" /\ phase[d] = "reduced" /\ phase'[d] = "updated") =>
         /\ \A e \in Devices : grads[e] # <<>>
         /\ replicated_opt_state'[variant][d] =
              opt_update(i, TotalGrad, replicated_opt_state[variant][d])
         /\ (n_gpus = 1 => g[d] = grads[d])]_vars

Wit_C6_UpdateUsesSum ==
  /\ pc = "step" /\ n_gpus >= 2
  /\ \E d \in Devices : phase[d] = "updated"
  /\ \A e \in Devices : grads[e] # <<>>
  /\ grads[1] # grads[2]
  /\ g[1] = TotalGrad /\ g[1] # grads[1] /\ g[1] # grads[2]

\* C7 (as claimed): right after resuming from iteration s, each flow's
\* optimizer state and FlowState are the ones saved for that flow at s.
CE_C7_ResumeRestoresEachVariant ==
  JustResumed =>
    \A v \in Variants, d \in Devices :
      /\ tree_leaves(replicated_opt_state[v][d]) =
           disk.ckpt[start_it]["opt_state_" \o v \o "_leaves"]
      /\ tree_leaves(replicated_state[v][d]) =
           disk.ckpt[start_it]["state_" \o v \o "_leaves"]

\* C8 (as claimed): right after resuming from iteration s, the RNG key is the
\* key that was current when the checkpoint of s was written.
CE_C8_ResumeRestoresKey ==
  JustResumed => key = hist[start_it].key

\* C9 (as claimed): a checkpoint written by a model of another parameter-tree
\* topology is never loaded successfully.
CE_C9_TopologyMismatchFails ==
  JustResumed => ParamDef(model_type) = ParamDef(hist[start_it].model_type)


(***************************************************************************)
(* Properties of the mixture transform and of bisection.                   *)
(***************************************************************************)
MixDone == mpc = "done" /\ mx.kind = "mixture"
BisDone == mpc = "done" /\ mx.kind = "bisection"
\* the affine parameters of element e, as mixture_forward reads them
AffineOf(e) == [log_s |-> Tanh15(split(mx.theta[e]).log_s[1]), t |-> split(mx.theta[e]).t[1]]
\* a distance of 1.0 in z, 100 times the absolute tolerance of 0.01 (1e-6
\* against 1e-8 in the source)
ZTol == ZScale
\* the solver came back to x: within ZTol in every element
Recovered == \A e \in DOMAIN mx.x : Abs(mres.inv.z[e] - mx.x[e]) <= ZTol

RootsInBracket ==
  /\ mx.fn \in IncreasingFns
  /\ mx.atol = atol_default
  /\ mx.max_iters = max_iters_default
  /\ \A e \in DOMAIN mx.r : mx.lower <= mx.r[e] /\ mx.r[e] <= mx.upper
\* the target of element e is more than the tolerance away from 0 and from 1
AwayFromFlat(e) == mx.x[e] > atol_default /\ mx.x[e] < FUnit - atol_default

CE_C10_ComponentCountIsK ==
  (mx.kind = "mixture" /\ mpc \in {"forward_done", "solving", "done"}) =>
    /\ mres.n_components = mx.K
    /\ Len(split(mx.theta[1]).weight_logits) = mx.K
    /\ Len(split(mx.theta[1]).means) = mx.K
    /\ Len(split(mx.theta[1]).log_scales) = mx.K


(***************************************************************************)
(* Properties of the coupling wrapper.                                     *)
(***************************************************************************)
CouplingRan == mx.kind = "coupling" /\ mpc \in {"forward_done", "solving", "done"}
\* the other values xb could have had
OtherXb == {<<b * ZScale>> : b \in XVals} \cup {<<b * ZScale + 1>> : b \in XVals}

PadDone == mx.kind = "zero_padding" /\ mpc = "done"

\* C12 (as amended): kind is tall when the input dimension exceeds the output
\* dimension and wide otherwise; the forward pass (sample = False) maps an
\* input of input_dim entries to an output of output_dim entries, from the
\* higher-dimensional side to the lower one for kind tall and from the lower
\* to the higher one for kind wide.
Thm_C12_PadDirection ==
  (PadDone /\ ~mx.sample) =>
    /\ (kind(mx.input_dim, mx.output_dim) = "tall") = (mx.input_dim > mx.output_dim)
    /\ (kind(mx.input_dim, mx.output_dim) = "wide") = (mx.input_dim <= mx.output_dim)
    /\ Len(mx.x) = mx.input_dim
    /\ Len(mres.out.x) = mx.output_dim
    /\ mres.out.big_to_small = (kind(mx.input_dim, mx.output_dim) = "tall")

\* a forward pass of a wide layer that made its input longer
Wit_C12_PadDirection ==
  /\ PadDone
  /\ ~mx.sample
  /\ kind(mx.input_dim, mx.output_dim) = "wide"
  /\ Len(mres.out.x) > Len(mx.x)

\* C12 (as stated): the forward pass maps from the higher-dimensional side to
\* the lower-dimensional side for both kinds (where the two sides differ)
CE_C12_ForwardAlwaysReduces ==
  (PadDone /\ ~mx.sample /\ mx.input_dim # mx.output_dim) =>
    /\ mres.out.big_to_small
    /\ Len(mx.x) = big_dim(mx.input_dim, mx.output_dim)
    /\ Len(mres.out.x) = small_dim(mx.input_dim, mx.output_dim)


\* the first call has returned
PadCalled == mx.kind = "zero_padding" /\ mpc \in {"done", "back"}

\* C28: for either kind, the expanding direction returns x unchanged in the
\* first small_dim coordinates followed by exactly big_dim - small_dim noise
\* coordinates, the reducing direction returns the first small_dim coordinates
\* of its input, and expanding and then reducing returns the original x;
\* big_dim - small_dim is never negative; captured_output is in the result
\* exactly when the call went in the reducing direction.
Thm_C28_PadRoundTrip ==
  PadCalled =>
    LET small == Min2(mx.input_dim, mx.output_dim)
        big == Max2(mx.input_dim, mx.output_dim)
    IN /\ small_dim(mx.input_dim, mx.output_dim) = small
       /\ big_dim(mx.input_dim, mx.output_dim) = big
       /\ big_dim(mx.input_dim, mx.output_dim) - small_dim(mx.input_dim, mx.output_dim) >= 0
       /\ mres.out.captured_output = mres.out.big_to_small
       /\ mres.out.big_to_small =>
            /\ Len(mx.x) = big
            /\ mres.out.x = SubSeqOrEmpty(mx.x, 1, small)
       /\ ~mres.out.big_to_small =>
            /\ Len(mx.x) = small
            /\ Len(mres.out.x) = big
            /\ SubSeqOrEmpty(mres.out.x, 1, small) = mx.x
            /\ SubSeqOrEmpty(mres.out.x, small + 1, big)
                 = FlowSample(mx.x, big - small, mx.rng)
       /\ (mpc = "back" /\ ~mres.out.big_to_small) =>
            /\ mres.back.big_to_small
            /\ mres.back.captured_output
            /\ mres.back.x = mx.x

\* a tall layer sampled and then run forward: noise that is not all zero was
\* appended and dropped again
Wit_C28_PadRoundTrip ==
  /\ mpc = "back"
  /\ mx.kind = "zero_padding"
  /\ kind(mx.input_dim, mx.output_dim) = "tall"
  /\ ~mres.out.big_to_small
  /\ Len(mres.out.x) > Len(mx.x)
  /\ \E j \in DOMAIN mres.out.x : j > Len(mx.x) /\ mres.out.x[j] # 0
  /\ mres.back.x = mx.x
  /\ \E j \in DOMAIN mx.x : mx.x[j] # 0


(***************************************************************************)
(* Properties of the affine-Gaussian priors.                               *)
(***************************************************************************)
\* C13 (as stated): for both covariance variants the inverse completes, returns
\* the state unchanged, and returns x = Az plus noise with the Gaussian log-pdf
\* of the noise when a key is passed, x = Az with -1/2 log|A^T A| when not
CE_C13_PriorInverseCompletes ==
  (mx.kind = "prior" /\ mpc # "call") =>
    /\ mpc = "done"
    /\ mres.kind = "outputs"
    /\ mres.state = mx.state
    /\ mx.key = NoKey =>
         /\ mres.outputs.x = MatVec(mx.A, mx.x)
         /\ mres.outputs.log_det = [fn |-> "neg_half_slogdet", of |-> Gram(mx.A)]
    /\ mx.key # NoKey =>
         /\ mres.outputs.log_det.fn = "gaussian_logpdf"
         /\ mres.outputs.x =
              [j \in DOMAIN mres.outputs.x |->
                 MatVec(mx.A, mx.x)[j] + mres.outputs.log_det.noise[j]]


(***************************************************************************)
(* Properties of the network constructors.                                 *)
(***************************************************************************)
NetSettled == mx.kind = "network" /\ mpc \in {"done", "raised"}

\* C14 (as stated): constructing an MLP, RepeatedConv or ConvBlock aborts
\* exactly when the nonlinearity name is not one of the five recognised names
CE_C14_NonlinearityAbortsIffUnknown ==
  (NetSettled /\ mx.cls \in {"MLP", "RepeatedConv", "ConvBlock"}) =>
    ((mpc = "raised") = (mx.nonlinearity \notin KnownNonlinearities))

\* C15 (as stated): constructing a convolutional network with a normalization
\* kind that is neither recognised nor None aborts
CE_C15_UnknownNormalizationAborts ==
  (/\ NetSettled
   /\ mx.cls \in {"RepeatedConv", "ConvBlock", "CNN"}
   /\ mx.normalization \notin KnownNormalizations \cup {None}) =>
    mpc = "raised"


(***************************************************************************)
(* Properties of the loss files.                                           *)
(***************************************************************************)
RowsKept(old, new) == Len(new) >= Len(old) /\ SubSeq(new, 1, Len(old)) = old

\* C16 (as stated): loss rows are appended; no step of the script, a
\* checkpoint after a resume included, removes rows already in a loss file
CE_C16_LossRowsAppended ==
  [][/\ RowsKept(disk.losses_nf, disk'.losses_nf)
     /\ RowsKept(disk.losses_nif, disk'.losses_nif)]_vars


(***************************************************************************)
(* Properties of the logit-mixture flows.                                  *)
(***************************************************************************)
LogitInverse == mx.kind = "mixture" /\ mx.variant = "logit" /\ mpc \in {"solving", "done"}

\* C17 (as stated): the inverse of the logit-mixture variant never invokes
\* the bisection solver
CE_C17_LogitNeverBisects == LogitInverse => "current_z" \notin DOMAIN val

\* C17 (amended): the inverse of the logit-mixture variant is computed by the
\* bisection solver, called once on the whole array: all elements iterate
\* together, the loop body runs at least once, and the returned value is the
\* solver's current_z
Thm_C17_LogitBisectsWholeArray ==
  LogitInverse =>
    /\ "current_z" \in DOMAIN val
    /\ \A e, d \in DOMAIN val.i : val.i[e] = val.i[d]
    /\ mpc = "done" =>
         /\ \A e \in DOMAIN val.i : val.i[e] >= 1
         /\ mres.inv.z = val.current_z

Wit_C17_LogitBisectsWholeArray ==
  /\ LogitInverse
  /\ mpc = "done"
  /\ Len(mx.x) = 2
  /\ val.i[2] >= 2
  /\ Abs(val.dx[2]) <= atol_default
  /\ Abs(mixture_forward("logit", <<val.current_z[2]>>, <<mx.theta[2]>>).z[1]
         - mres.fwd.z[2]) <= 2 * atol_default


(***************************************************************************)
(* The symmetric two-component Gaussian mixture.                           *)
(***************************************************************************)
\* equal weights, means -1 and 1, log-scales 0, no affine part, x = 0
SymmetricCase ==
  /\ mx.kind = "mixture"
  /\ mx.variant = "gaussian"
  /\ ~mx.coupling
  /\ mx.theta[1] = <<0, 0, -1, 1, 0, 0, 0, 0>>
  /\ mx.x[1] = 0

\* C18: for the symmetric two-component Gaussian mixture the forward pass at
\* x = 0 gives the CDF value 0.5; the solver starts from a guess that already
\* meets the target, iterates all the same, and returns 0 within tolerance
Thm_C18_SymmetricRoundTrip ==
  SymmetricCase =>
    /\ mpc \in {"forward_done", "solving", "done"} => mres.fwd.z[1] = FUnit
    /\ (mpc = "solving" /\ val.i[1] = 0) =>
         /\ val.current_z[1] = 0
         /\ val.current_x[1] = val.x[1]
         /\ cond_fun(val, 1)
    /\ mpc = "done" => (val.i[1] >= 1 /\ Abs(mres.inv.z[1] - mx.x[1]) <= ZTol)

Wit_C18_SymmetricRoundTrip ==
  /\ SymmetricCase
  /\ mpc = "done"
  /\ val.i[1] >= 1
  /\ 2 * val.x[1] = FUnit
  /\ Abs(mres.inv.z[1]) <= ZTol


(***************************************************************************)
(* Properties of the data-dependent initialization.                        *)
(***************************************************************************)
Constructed == pc \in {"setup", "loop", "step", "finished", "failed"}
InitPassRuns == \E v \in Variants : init_runs'[v] = init_runs[v] + 1

\* C19: a process started from iteration 0 runs the data-dependent
\* initialization once for each flow and a resuming process never runs it;
\* the pass runs inside the construction loop, before the process has taken
\* a training step, and leaves the optimizer state alone
Thm_C19_InitPassOnce ==
  /\ [](Constructed =>
          \A v \in Variants : init_runs[v] = IF start_it = 0 THEN 1 ELSE 0)
  /\ [][InitPassRuns =>
          /\ pc = "construct"
          /\ start_it = 0
          /\ i = 0
          /\ \A v \in Variants : losses[v] = <<>>
          /\ init_runs'[variant] = 1
          /\ UNCHANGED <<replicated_opt_state, replicated_state, disk>>]_vars
  /\ [][(pc \in {"loop", "step"} /\ restarts' = restarts) =>
          init_runs' = init_runs]_vars

Wit_C19_InitPassOnce ==
  /\ start_it = 0
  /\ pc = "step"
  /\ i >= 1
  /\ \A v \in Variants : init_runs[v] = 1
  /\ models["nf"].params # Zeros(ParamDef(model_type))
  /\ replicated_opt_state["nf"][1] # opt_init(models["nf"].params)


(***************************************************************************)
(* Properties of one bisection iteration.                                  *)
(***************************************************************************)
\* C20: one trip of the loop, for every element that is still iterating:
\* with f(current_z) > x the new current_z is the midpoint of the old one and
\* lower, upper becomes the old current_z and lower stays; otherwise the new
\* current_z is the midpoint of the old one and upper, lower becomes the old
\* current_z and upper stays; x stays and the counter goes up by one
Thm_C20_BisectionIteration ==
  [][(mpc = "solving" /\ mpc' = "solving") =>
       \A e \in DOMAIN val.x :
         cond_fun(val, e) =>
           /\ val'.x[e] = val.x[e]
           /\ val'.i[e] = val.i[e] + 1
           /\ val'.current_x[e] = EvalF(e, val'.current_z[e])
           /\ IF val.current_x[e] > val.x[e]
              THEN /\ 2 * val'.current_z[e] = val.current_z[e] + val.lower[e]
                   /\ val'.upper[e] = val.current_z[e]
                   /\ val'.lower[e] = val.lower[e]
              ELSE /\ 2 * val'.current_z[e] = val.current_z[e] + val.upper[e]
                   /\ val'.lower[e] = val.current_z[e]
                   /\ val'.upper[e] = val.upper[e]]_vars

Wit_C20_BisectionIteration ==
  /\ mx.kind = "bisection"
  /\ mpc = "solving"
  /\ Len(val.x) = 2
  /\ val.x = mx.x
  /\ val.i[1] >= 3
  /\ \A e \in DOMAIN val.x : val.lower[e] # mx.lower /\ val.upper[e] # mx.upper
  /\ val.lower[1] # val.lower[2]


(***************************************************************************)
(* Properties of the bisection loop as a whole.                            *)
(***************************************************************************)
InBisection == mpc \in {"solving", "done"} /\ "current_z" \in DOMAIN val

\* C21 (as stated): in any run the loop body is executed at most max_iters
\* times for each element
CE_C21_AtMostMaxIters ==
  InBisection => \A e \in DOMAIN val.i : val.i[e] <= Call.max_iters


\* the run ended with some element still outside the tolerance
CapReached == BisDone /\ \E e \in DOMAIN val.x : Abs(val.dx[e]) > mx.atol

\* C22: when the loop ends on the iteration cap with an element still outside
\* the tolerance, bisection raises nothing and returns the current_z of the
\* last iteration, the point where f was last evaluated
Thm_C22_CapReturnsLastEstimate ==
  CapReached =>
    /\ mres.kind = "bisection"
    /\ mres.z = val.current_z
    /\ \A e \in DOMAIN val.x :
         /\ val.i[e] > mx.max_iters
         /\ val.current_x[e] = Fam(mx.fn, mres.z[e])
         /\ val.dx[e] = Fam(mx.fn, mres.z[e]) - mx.x[e]

\* a target of the non-monotonic function that the default cap does not reach
Wit_C22_CapReturnsLastEstimate ==
  /\ CapReached
  /\ mx.fn = "vee"
  /\ mx.max_iters = max_iters_default
  /\ mx.atol = atol_default
  /\ val.i[1] = max_iters_default + 1
  /\ mres.z = val.current_z
  /\ mres.z[1] # 0


\* C23 (as stated): every iteration, the first included, halves the width
\* upper - lower of each element's bracket exactly
CE_C23_WidthHalved ==
  [][(mpc = "solving" /\ mpc' = "solving") =>
       \A e \in DOMAIN val.x :
         cond_fun(val, e) =>
           2 * (val'.upper[e] - val'.lower[e]) = val.upper[e] - val.lower[e]]_vars


(***************************************************************************)
(* Properties of the checkpoints.                                          *)
(***************************************************************************)
\* the step i has completed: the main thread goes back to the top of the loop
StepCompletes == pc = "step" /\ pc' = "loop"
\* what the directory of iteration it holds, against what is in memory
SavedIs(d0, it) ==
  /\ it \in DOMAIN d0.ckpt
  /\ \A v \in Variants :
       /\ d0.ckpt[it]["opt_state_" \o v \o "_leaves"] =
            tree_leaves(replicated_opt_state[v][1])
       /\ d0.ckpt[it]["state_" \o v \o "_leaves"] = tree_leaves(replicated_state[v][1])
  /\ d0.misc.key = key

\* C24: the experiment directory changes only when a step i with
\* i mod print_every = 0 completes, after both flows' updates have returned on
\* every device and before the next step begins; that write stores the
\* updated optimizer state and flow state of both flows and the RNG key; a
\* completed step with i mod print_every # 0 writes nothing
Thm_C24_CheckpointBetweenSteps ==
  /\ [][(disk' # disk) =>
          /\ StepCompletes
          /\ i % print_every = 0
          /\ variant = "nif"
          /\ \A d \in Devices : phase[d] = "updated"
          /\ i' = i + 1
          /\ UNCHANGED <<replicated_opt_state, replicated_state, key>>]_vars
  /\ [][StepCompletes =>
          IF i % print_every = 0
          THEN SavedIs(disk', i) /\ DOMAIN disk'.ckpt = DOMAIN disk.ckpt \cup {i}
          ELSE disk' = disk]_vars

Wit_C24_CheckpointBetweenSteps ==
  /\ print_every = 2
  /\ n_gpus = 2
  /\ pc = "loop"
  /\ i = 3
  /\ DOMAIN disk.ckpt = {0, 2}
  /\ SavedIs(disk, 2)
  /\ key # PRNGKey0
  /\ replicated_opt_state["nf"][1] # opt_init(models["nf"].params)


(***************************************************************************)
(* Properties of restrict_scales.                                          *)
(***************************************************************************)
\* theta with every log-scale below the floor replaced by the floor
FloorScales(theta) ==
  LET n == n_components(theta)
  IN [j \in DOMAIN theta |->
        IF j > 2 * n /\ j <= 3 * n /\ theta[j] < ScaleFloor THEN ScaleFloor
        ELSE theta[j]]
LogitForward ==
  /\ mx.kind = "mixture"
  /\ mx.variant = "logit"
  /\ mpc \in {"forward_done", "solving", "done"}

\* C25: the logit-mixture flow computes its value and its log-determinant
\* with every log-scale below the floor replaced by the floor, raises nothing
\* on such scales, evaluates f in the solver with the same scales, and uses
\* scales at or above the floor as they are
Thm_C25_ScalesFloored ==
  /\ (mx.kind = "mixture" /\ mx.variant = "logit" /\ mpc = "raised") =>
       \E e \in DOMAIN mx.x : n_components(mx.theta[e]) = 0
  /\ LogitForward =>
       LET floored == [e \in DOMAIN mx.x |-> FloorScales(mx.theta[e])]
       IN /\ mres.fwd = mixture_forward("logit", mx.x, floored)
          /\ \A e \in DOMAIN mx.x :
               LET p == split(mx.theta[e])
                   q == split(floored[e])
               IN /\ (\A k \in DOMAIN p.log_scales : p.log_scales[k] >= ScaleFloor)
                       => restrict_scales(p.log_scales) = p.log_scales
                  /\ mpc \in {"solving", "done"} =>
                       val.current_x[e] =
                         logistic_cdf_mixture_logit(q.weight_logits, q.means,
                                                    q.log_scales, val.current_z[e])

\* a log-scale below the floor, at a point where the floor changes the value
Wit_C25_ScalesFloored ==
  /\ LogitForward
  /\ mpc = "done"
  /\ split(mx.theta[1]).log_scales[1] < ScaleFloor
  /\ mx.x[1] = Scale2(ZScale, 2 * ScaleFloor)
  /\ mres.fwd.z[1] > 0
  /\ mres.fwd.z[1] < 2 * (Len(LogisticCdfTab) - 1) * FUnit


(***************************************************************************)
(* Properties of the vmap nest (SpecShare).                                *)
(***************************************************************************)
\* the multi-index of every element of x, in row-major order
ElementIndex == Flatten(Len(mx.xshape), IndexArray(mx.xshape, <<>>))
\* the parameters have every axis of x, each of length 1 or of x's length
SizeOneShapes ==
  /\ Len(mx.pshape) = Len(mx.xshape)
  /\ \A k \in DOMAIN mx.pshape : mx.pshape[k] \in {1, mx.xshape[k]}
\* the parameter index the size-1 rule gives an element of x
BroadcastIndex(idx) ==
  [k \in DOMAIN mx.pshape |-> IF mx.pshape[k] = 1 THEN 1 ELSE idx[k]]

\* C26: in mixture_forward and mixture_inverse every element of x is
\* transformed on its own, with the parameters found by sharing a parameter
\* axis of length 1 across the data axis and indexing every other parameter
\* axis together with x, the same in both directions: once mixture_forward
\* has been called on such shapes it has not raised, the parameters paired
\* with each element are the ones the size-1 rule gives, and each element of
\* z is the transform of that element alone.
CE_C26_SizeOneAxisShared ==
  (mx.kind = "mixture" /\ mpc # "call" /\ SizeOneShapes)
    => /\ mpc # "raised"
       /\ \A e \in DOMAIN mx.x :
            /\ mx.theta[e] = ThetaAt(BroadcastIndex(ElementIndex[e]))
            /\ mres.fwd.z[e] = forward_elem(mx.variant, mx.x[e], mx.theta[e]).z


\* bisection was called with the initial guess 0 inside the bracket
GuessInBracket == mx.kind = "bisection" /\ mx.lower <= 0 /\ 0 <= mx.upper

\* C27: when the initial guess 0 lies in [lower, upper], then before and after
\* every iteration each element has lower <= current_z <= upper inside the
\* initial bracket; if moreover f is increasing and the root of f(z) = x lies
\* in the initial bracket, the root is in [lower, upper] throughout; and the
\* z returned lies in the initial bracket.
Thm_C27_BracketInvariant ==
  (InBisection /\ GuessInBracket) =>
    \A e \in DOMAIN val.x :
      /\ val.lower[e] <= val.current_z[e]
      /\ val.current_z[e] <= val.upper[e]
      /\ mx.lower <= val.lower[e]
      /\ val.upper[e] <= mx.upper
      /\ (mx.fn \in IncreasingFns /\ mx.lower <= mx.r[e] /\ mx.r[e] <= mx.upper)
           => (val.lower[e] <= mx.r[e] /\ mx.r[e] <= val.upper[e])
      /\ mpc = "done" => (mx.lower <= mres.z[e] /\ mres.z[e] <= mx.upper)

\* a finished run on an increasing function whose root, away from 0, is in a
\* bracket around 0: both ends of the bracket have moved towards the root
Wit_C27_BracketInvariant ==
  /\ mpc = "done"
  /\ GuessInBracket
  /\ mx.fn \in IncreasingFns
  /\ mx.r[1] # 0
  /\ mx.lower <= mx.r[1]
  /\ mx.r[1] <= mx.upper
  /\ val.i[1] >= 2
  /\ val.lower[1] > mx.lower
  /\ val.upper[1] < mx.upper
  /\ val.lower[1] <= mx.r[1]
  /\ mx.r[1] <= val.upper[1]

====
